---- MODULE Spec2Model ----
(***************************************************************************)
(* Model of the editor service of scriptkid23/healcode:                    *)
(*   src/editor/service.py      EditorService, BackupManager               *)
(*   src/editor/interfaces.py   EditRequest, EditOptions, EditResult, ...  *)
(*   src/editor/strategies/line_editor.py   LineEditor                     *)
(*                                                                         *)
(* One edit_file call is a coroutine.  Its position is pc[o]:              *)
(*   "idle"   not called yet                                               *)
(*   "sem"    waiting at `async with self.operation_semaphore`             *)
(*   "lock"   past the semaphore, file_locks entry made, about to take the *)
(*            per-file lock (asyncio.Lock or portalocker)                  *)
(*   "locked" lock held, at the top of _execute_edit                       *)
(*   "run"    backup step done, suspended in asyncio.wait_for              *)
(*   "ran"    strategy.edit has returned or raised, waiter not yet resumed *)
(*   "hung"   strategy.edit is suspended and has not finished              *)
(*   "done"   edit_file has returned its EditResult                        *)
(* The calls are coroutines of one asyncio event loop: a call runs without  *)
(* interruption from one suspension point to the next (`running` names it), *)
(* and the loop picks a ready coroutine when none is running.  The tasks    *)
(* that wait_for makes for strategy.edit start in the order they were made  *)
(* (the loop's ready queue is first-in first-out).                          *)
(* Time is a clock `now` in seconds that advances by TickSeconds.          *)
(***************************************************************************)
EXTENDS Integers, Sequences, FiniteSets, TLC

\* ---------------------------------------------------------------- bounds
NumOps == 3
NumCalls == 2
NumLines == 2
MaxTicks == 2
TickSeconds == 30
MaxRollbacks == 2
MaxLen == 3
MaxBlock == 5
SlotLimit == 2

\* ------------------------------------------------------ program constants
max_concurrent_operations == 10
lock_timeout_seconds == 30
timeout_seconds == 30
max_file_size_mb == 50

\* EditorConfig.backup_retention_days (service.py 31).
backup_retention_days == 7

VARIABLES
    workload,             \* what the callers and the environment may do
    config,               \* EditorConfig fields that vary between deployments
    HAS_PORTALOCKER,      \* module flag: the portalocker import succeeded
    now,                  \* time.time()
    running,              \* the call the event loop is running (0 = none)
    run_queue,            \* strategy.edit tasks made by wait_for, in the loop's order
    next_call,            \* index of the next edit_file call to be issued
    pc,                   \* position of each edit_file coroutine
    req,                  \* the EditRequest of each call
    files,                \* file system: path -> [content, mtime]
    lock_files,           \* "<file>.lock" directory entry: path -> inode (0 = absent)
    flocked,              \* inodes on which an exclusive flock is held
    held_inode,           \* inode each call holds open and locked (0 = none)
    file_locks,           \* self.file_locks: path -> [present, owner]
    operation_semaphore,  \* free slots of self.operation_semaphore
    active_operations,    \* keys of self.active_operations
    metadata,             \* the OperationMetadata object of each call
    operation_history,    \* self.operation_history, as references to metadata
    backups,              \* backup directory: one file per operation id
    backup_info,          \* local variable backup_info of _execute_edit
    outcome,              \* what asyncio.wait_for(strategy.edit(..)) will deliver
    results,              \* the EditResult each call returned
    suspended_at,         \* time at which the call last suspended
    last_locker,          \* path -> the call that took a lock on it last
    content_at_call,      \* file content when edit_file was called
    writes_since,         \* writes to the call's file since its backup (2 = more)
    rollback_result,      \* the RollbackResult of the last rollback call
    text,                 \* a file as characters, for the strategies run alone
    strategy_result,      \* what the last strategy or constructor call gave
    HAS_IN_PLACE,         \* module flag: the in_place import succeeded
    source,               \* a source file as its syntax tree and its layout
    _ast_editors,         \* EditorFactory._ast_editors: extension -> class
    editor,               \* what the last get_editor call gave
    _parser,              \* per tree-sitter editor: its parser has been made
    tree_sitter,          \* "installed" or "missing": the tree-sitter packages
    query                 \* what the last read-only call returned

vars == <<workload, config, HAS_PORTALOCKER, now, running, run_queue, next_call, pc, req, files, lock_files,
          flocked, held_inode, file_locks, operation_semaphore,
          active_operations, metadata, operation_history, backups,
          backup_info, outcome, results, suspended_at, last_locker,
          content_at_call, writes_since, rollback_result, text, strategy_result,
          HAS_IN_PLACE, source, _ast_editors, editor, _parser, tree_sitter,
          query>>

\* The variables that only the strategies run alone and the read-only calls
\* read or change.
strategy_vars == <<text, strategy_result, HAS_IN_PLACE, source, _ast_editors, editor,
                   _parser, tree_sitter, query>>

\* The variables of the syntax-tree editors and of the editor factory.
ast_vars == <<source, _ast_editors, editor, _parser, tree_sitter>>

Ops == 1..NumOps

\* ------------------------------------------------------------ file system
\* Paths a caller may name.  "a.py" is an ordinary source file; the others
\* each fail one rule of _validate_request.
Paths == {"a.py", "missing.py", "a.exe", "big.py", "/etc/x.py"}

allowed_extensions == {".py", ".js", ".ts", ".json", ".yaml", ".yml", ".txt", ".md"}

Exists(p) == p # "missing.py"

Suffix(p) == IF p = "a.exe" THEN ".exe" ELSE ".py"

SizeMb(p) == IF p = "big.py" THEN max_file_size_mb + 1 ELSE 0

UnderBase(p, base) == IF p = "/etc/x.py" THEN base = "/etc" ELSE base = "/srv"

\* Lines are <<tag, n>>: <<"orig", i>> is line i of the file as first written,
\* <<"new", o>> is the content that call o supplies.
OriginalContent == [i \in 1..NumLines |-> <<"orig", i>>]

NewContent(o) == <<"new", o>>

\* The file a path leads to (what open(path) opens).
FileOf(p) == IF p \in {"./a.py", "link.py"} THEN "a.py" ELSE p

\* The directory entry that f"{file_path}.lock" names (service.py 225).
LockFileOf(p) == IF p = "./a.py" THEN "a.py" ELSE p

\* The strings that may become keys of self.file_locks.
LockKeys ==
    LET
        EditablePaths == {p \in Paths : Exists(p)}
        \* Further names, which pass _validate_request: "b.py" is a second source
        \* file, "./a.py" names the file "a.py" again and "link.py" is a symbolic
        \* link to it.
        MorePaths == {"b.py", "./a.py", "link.py"}
    IN
                EditablePaths \cup MorePaths

\* ------------------------------------------------------------- data model
\* EditOptions (interfaces.py): the fields the service reads.
EditOptions(backup, atomic) ==
    [create_backup |-> backup, atomic_operation |-> atomic,
     timeout_seconds |-> timeout_seconds]

DefaultOptions == EditOptions(TRUE, TRUE)

\* EditRequest for a single-line edit, as EditorService.edit_line builds it.
EditRequest(p, n, c, opts) ==
    [file_path |-> p, operation_type |-> "line", target |-> n, content |-> c,
     options |-> opts]

WorkloadOf(w) ==
    LET
        \* A workload: how many edit_file calls are issued, the paths, target lines
        \* and options the callers use, and the ways a strategy.edit run may end.
        Workload(n, ps, ls, backup, atomic, bs) ==
            [calls |-> n, paths |-> ps, lines |-> ls, create_backup |-> backup,
             atomic_operation |-> atomic, behaviours |-> bs]
        Behaviours ==
            {"ok", "read_error", "write_error", "raise_clean", "raise_dirty", "hang", "hang_dirty"}
    IN
        CASE w = "any" ->
                \* two calls: any path, line, options and behaviour
                Workload(NumCalls, Paths, 1..NumLines, BOOLEAN, BOOLEAN, Behaviours)
          [] w = "same_file" ->
                \* NumOps calls with default options, any target line
                Workload(NumOps, {"a.py", "missing.py"}, 1..NumLines, {TRUE}, {TRUE},
                         {"ok", "raise_dirty", "hang"})
          [] w = "lifecycle" ->
                \* NumCalls calls that reach every exit of edit_file
                Workload(NumCalls, Paths, {1}, {TRUE}, {TRUE},
                         {"ok", "write_error", "raise_dirty", "hang"})
          [] w = "same_line" ->
                \* NumCalls calls on one line, on either lock path
                Workload(NumCalls, {"a.py", "missing.py"}, {1}, {TRUE}, BOOLEAN,
                         {"ok", "raise_dirty", "hang"})
          [] w = "rollback" ->
                \* NumCalls calls with default options and the built-in line
                \* strategy, which returns its failures; rollback calls
                Workload(NumCalls, {"a.py", "missing.py"}, {1}, {TRUE}, {TRUE},
                         {"ok", "read_error"})
          [] w = "outcomes" ->
                \* NumCalls calls, line edits and appends, that reach every exit
                \* of edit_file
                Workload(NumCalls, Paths, {1}, {TRUE}, {TRUE},
                         {"ok", "write_error", "raise_dirty", "hang"})
          [] w = "aliases" ->
                \* NumCalls calls that name one file in three ways
                Workload(NumCalls, {"a.py", "./a.py", "link.py", "missing.py"}, {1},
                         {TRUE}, {TRUE}, {"ok", "raise_dirty", "hang"})
          [] w = "slots" ->
                \* NumOps calls on two files, more calls than there are slots
                Workload(NumOps, {"a.py", "b.py", "missing.py"}, {1}, {TRUE}, {TRUE},
                         {"ok", "read_error"})
          [] w = "retention" ->
                \* NumCalls calls like those of "rollback", on files of any age
                Workload(NumCalls, {"a.py", "missing.py"}, {1}, {TRUE}, {TRUE},
                         {"ok", "read_error"})
          [] w = "validation" ->
                \* NumCalls calls, line edits and pattern edits whose regular
                \* expression does not compile
                Workload(NumCalls, {"a.py", "missing.py"}, {1}, BOOLEAN, {TRUE},
                         {"ok", "raise_dirty", "hang"})

\* The requests call o may issue: every line and option combination of the
\* workload on "a.py", and one default-option request on each other path.
RequestSet(o) ==
    LET
        \* EditRequest for an append, with target None (written 0).
        AppendRequest(p, c, opts) ==
            [file_path |-> p, operation_type |-> "append", target |-> 0, content |-> c,
             options |-> opts]
        \* EditRequest for a pattern edit, as EditorService.edit_pattern
        \* (service.py 143-154) builds it.
        PatternRequest(p, pattern, c, opts) ==
            [file_path |-> p, operation_type |-> "pattern", target |-> pattern,
             content |-> c, options |-> opts]
        \* The operation types the callers of a workload use.
        OperationTypes(w) ==
            CASE w = "outcomes" -> {"line", "append"}
              [] w = "validation" -> {"line", "pattern"}
              [] OTHER -> {"line"}
    IN
        {EditRequest("a.py", n, NewContent(o), EditOptions(b, a)) :
            n \in WorkloadOf(workload).lines \cap (1..NumLines),
            b \in WorkloadOf(workload).create_backup,
            a \in WorkloadOf(workload).atomic_operation}
        \cup {EditRequest(p, 1, NewContent(o), DefaultOptions) :
                p \in WorkloadOf(workload).paths \ {"a.py"}}
        \cup {AppendRequest("a.py", NewContent(o), DefaultOptions) :
                type \in OperationTypes(workload) \cap {"append"}}
        \cup {PatternRequest("a.py", <<"(">>, NewContent(o), EditOptions(b, TRUE)) :
                type \in OperationTypes(workload) \cap {"pattern"},
                b \in WorkloadOf(workload).create_backup}

\* EditorConfig.max_concurrent_operations of the deployment a workload runs
\* on: the default, or SlotLimit where the callers are to fill the slots.
ConfiguredSlots(w) ==
    IF w = "slots" THEN SlotLimit ELSE max_concurrent_operations

\* BackupInfo without created_at and file_size, which nothing reads;
\* backup_path 0 stands for None.  The backup file name holds the
\* operation id, so the id names the file; the checksum is the content itself.
BackupInfo(id, p, c) ==
    [backup_path |-> id, original_path |-> p, operation_id |-> id, checksum |-> c]

NoBackupInfo == BackupInfo(0, "", <<>>)

\* OperationMetadata; completed_at -1 stands for None.
OperationMetadata(id, p, t) ==
    [operation_id |-> id, file_path |-> p, operation_type |-> "line",
     started_at |-> t, completed_at |-> -1, backup_info |-> NoBackupInfo]

\* EditResult; operation_id 0 stands for "no result yet".
EditResult(ok, id, p, err, n) ==
    [success |-> ok, operation_id |-> id, file_path |-> p, error |-> err,
     backup_path |-> 0, lines_changed |-> n]

\* Variant of error_result that leaves the error out.
error_result_without_error(id, p, err) == EditResult(FALSE, id, p, "", 0)

error_result(id, p, err) == EditResult(FALSE, id, p, err, 0)

NoResult == EditResult(FALSE, 0, "", "", 0)

\* uuid4 values are pairwise distinct: the k-th edit_file call draws k, the
\* strategy.edit that call k invokes draws NumOps + k.
generate_operation_id(o) == o

NoFile == [exists |-> FALSE, content |-> <<>>, mtime |-> 0]

File(c, t) == [exists |-> TRUE, content |-> c, mtime |-> t]

Configs == [backup_enabled : BOOLEAN, allowed_base_paths : {{"/srv"}}]

\* ------------------------------------------------------------------- Init
\* RollbackResult (interfaces.py lines 121-148) with the force flag of the
\* request it answers; error "" stands for None.
RollbackResult(ok, id, p, err, force) ==
    [success |-> ok, operation_id |-> id, file_path |-> p, error |-> err,
     force |-> force]

\* What a read-only call returned: the call and its arguments, the status
\* it reports or the exception it raises, and the ids or line numbers it lists.
Query(call, id, p, pattern, status, answer) ==
    [call |-> call, operation_id |-> id, file_path |-> p, pattern |-> pattern,
     status |-> status, answer |-> answer]

NoQuery == Query("none", 0, "", <<>>, "", {})

\* What a call of a strategy or of the EditRequest constructor gave: the
\* request, and of the EditResult: success, error, lines_changed and
\* metadata["matches_found"]; for the constructor, error is the exception.
StrategyResult(call, r, ok, err, n, m) ==
    [call |-> call, request |-> r, success |-> ok, error |-> err,
     lines_changed |-> n, matches_found |-> m]

\* No strategy has been run alone.
NoStrategyResult == StrategyResult("none", <<>>, FALSE, "", 0, 0)

\* The state after EditorService.__init__ (lines 47-71), for workload w.
InitService(w, configs, portalocker) ==
    LET
        Files == {FileOf(p) : p \in LockKeys}
        LockFiles == {LockFileOf(p) : p \in LockKeys}
        NoRequest == EditRequest("", 0, <<"none", 0>>, DefaultOptions)
        NoMetadata == OperationMetadata(0, "", 0)
        NoOutcome == [kind |-> "none", result |-> NoResult, error |-> ""]
        \* rollback_result: a RollbackResult and the number of rollback calls made.
        NoRollbackResult == [result |-> RollbackResult(FALSE, 0, "", "", FALSE), calls |-> 0]
        \* When the files were last written, in seconds from the start of the
        \* service: at the start, or a day more than the retention time before it.
        ModifiedAt ==
            IF w = "retention" THEN {0, 0 - (backup_retention_days + 1) * 24 * 3600}
            ELSE {0}
    IN
        /\ workload = w
        /\ config \in configs
        /\ HAS_PORTALOCKER \in portalocker
        /\ now = 0
        /\ running = 0
        /\ run_queue = <<>>
        /\ next_call = 1
        /\ pc = [o \in Ops |-> "idle"]
        /\ req = [o \in Ops |-> NoRequest]
        /\ files \in {[p \in Files |-> File(OriginalContent, t)] : t \in ModifiedAt}
        /\ lock_files = [p \in LockFiles |-> 0]
        /\ flocked = {}
        /\ held_inode = [o \in Ops |-> 0]
        /\ file_locks = [p \in LockKeys |-> [present |-> FALSE, owner |-> 0]]
        /\ operation_semaphore = ConfiguredSlots(w)
        /\ active_operations = {}
        /\ metadata = [o \in Ops |-> NoMetadata]
        /\ operation_history = <<>>
        /\ backups = [o \in Ops |-> NoFile]
        /\ backup_info = [o \in Ops |-> NoBackupInfo]
        /\ outcome = [o \in Ops |-> NoOutcome]
        /\ results = [o \in Ops |-> NoResult]
        /\ suspended_at = [o \in Ops |-> 0]
        /\ last_locker = [p \in LockKeys |-> 0]
        /\ content_at_call = [o \in Ops |-> <<>>]
        /\ writes_since = [o \in Ops |-> 0]
        /\ rollback_result = NoRollbackResult
        /\ query = NoQuery

\* A source file: its extension, the statements of its syntax tree, its
\* layout, which is "canonical" when the text is what unparsing the tree
\* gives, "other" when it differs from that in comments, quotes or spacing,
\* and "syntax_error" when the text does not parse, and its .bak copy, <<>>
\* when there is none.
Source(suffix, body, layout, bak) ==
    [suffix |-> suffix, body |-> body, layout |-> layout, bak |-> bak]

NoSource == Source("", <<>>, "canonical", <<>>)

\* The editors that parse with tree-sitter, and BaseASTEditor.__init__
\* (base_ast_editor.py 19-22): no editor has a parser yet.
TreeSitterEditors == {"JavaScriptEditor", "TypeScriptEditor", "RustEditor"}

NoParser == [editor_class \in TreeSitterEditors |-> FALSE]

\* EditorFactory._register_default_editors (editor_factory.py 25-35): the
\* class registered for each extension, "" for none.
DefaultAstEditors ==
    LET
        \* The extensions the factory is asked about; "" is a name without one.
        Extensions == {".py", ".js", ".jsx", ".mjs", ".ts", ".tsx", ".rs", ".txt", ""}
    IN
        [ext \in Extensions |->
            CASE ext = ".py" -> "ASTEditor"
              [] ext \in {".js", ".jsx", ".mjs"} -> "JavaScriptEditor"
              [] ext \in {".ts", ".tsx"} -> "TypeScriptEditor"
              [] ext = ".rs" -> "RustEditor"
              [] OTHER -> ""]

\* The outcome of a get_editor call: the class of the editor returned, or the
\* exception raised.
EditorChoice(p, preferred_type, result) ==
    [file_path |-> p, preferred_type |-> preferred_type, result |-> result]

NoEditor == EditorChoice("", "None", "")

\* The service with no strategy run on its own.
InitWith(w, configs, portalocker) ==
    /\ InitService(w, configs, portalocker)
    /\ text = <<>>
    /\ strategy_result = NoStrategyResult
    /\ HAS_IN_PLACE = FALSE
    /\ source = NoSource
    /\ _ast_editors = DefaultAstEditors
    /\ editor = NoEditor
    /\ _parser = NoParser
    /\ tree_sitter = "missing"

Init == InitWith("any", Configs, BOOLEAN)

BackupConfigs == {c \in Configs : c.backup_enabled}

InitSameFile == InitWith("same_file", BackupConfigs, BOOLEAN)

InitLifecycle == InitWith("lifecycle", BackupConfigs, BOOLEAN)

InitSameLine == InitWith("same_line", BackupConfigs, BOOLEAN)

\* A deployment without portalocker.
InitRollback == InitWith("rollback", BackupConfigs, {FALSE})

InitOutcomes == InitWith("outcomes", BackupConfigs, BOOLEAN)

InitAliases == InitWith("aliases", BackupConfigs, BOOLEAN)

InitSlots == InitWith("slots", BackupConfigs, BOOLEAN)

\* ---------------------------------------------------------------- helpers
\* Variant of _validate_request that checks existence only.
_validate_request_exists_only(r) ==
    IF ~Exists(r.file_path) THEN "FileNotFoundError" ELSE ""

\* _validate_request: the name of the exception it raises, "" when it passes.
\* service.py does not import ValidationException, so each
\* `raise ValidationException(...)` raises NameError.
_validate_request(r) ==
    LET p == r.file_path IN
    IF ~Exists(p) THEN "FileNotFoundError"
    ELSE IF Suffix(p) \notin allowed_extensions THEN "NameError"
    ELSE IF SizeMb(p) > max_file_size_mb THEN "NameError"
    ELSE IF /\ config.allowed_base_paths # {}
            /\ \A base \in config.allowed_base_paths : ~UnderBase(p, base)
         THEN "NameError"
    ELSE ""

\* Variant of semaphore_locked in which a slot is always to be had.
semaphore_locked_never == FALSE

\* asyncio.Semaphore.locked() of self.operation_semaphore: no slot is free,
\* and `async with self.operation_semaphore` (line 96) waits.
semaphore_locked == operation_semaphore = 0

\* _get_strategy (service.py 322-331): the exception it raises, "" for none;
\* every strategy of self.strategies supports its own operation type.
_get_strategy(operation_type) ==
    LET
        \* self.strategies (service.py 51-56): the operation types with a strategy.
        strategies == {"line", "range", "pattern", "ast"}
    IN
        IF operation_type \notin strategies THEN "EditorException" ELSE ""

\* edit_file, lines 88-93: the exception raised before the semaphore.
edit_file_error(r) ==
    IF _validate_request(r) # "" THEN _validate_request(r)
    ELSE _get_strategy(r.operation_type)

\* Line 212: the branch _execute_with_lock takes.
UsesPortalocker(r) == HAS_PORTALOCKER /\ r.options.atomic_operation

\* Variant of locked in which the asyncio lock never excludes anyone.
locked_never(p) == FALSE

\* asyncio.Lock.locked() of self.file_locks[p].
locked(p) == file_locks[p].owner # 0

\* Line 253: whether _execute_edit takes a backup.
WantsBackup(r) == r.options.create_backup /\ config.backup_enabled

\* Variant of edit_lines that writes the lines back as read.
edit_lines_unchanged(lines, edit_map) == lines

\* LineEditor._edit_lines, lines 95-108: the lines after the edit.
edit_lines(lines, edit_map) ==
    [i \in 1..Len(lines) |-> IF i \in DOMAIN edit_map THEN edit_map[i] ELSE lines[i]]

\* LineEditor._edit_lines, lines 103-106: lines_changed.
lines_changed(lines, edit_map) == Cardinality(DOMAIN edit_map \cap (1..Len(lines)))

\* Line 86-88 and 95: the edit map of a single-line request.
edit_map_of(r) == [i \in {r.target} |-> r.content]

\* Variant of restore_error that also refuses a target as old as the backup.
restore_error_refuses_equal(backup, target, force) ==
    IF ~backup.exists THEN "BackupException"
    ELSE IF ~force /\ target.exists /\ target.mtime >= backup.mtime
         THEN "BackupException"
    ELSE ""

\* Variant of restore_error that makes the modification check under force too.
restore_error_ignores_force(backup, target, force) ==
    IF ~backup.exists THEN "BackupException"
    ELSE IF target.exists /\ target.mtime > backup.mtime
         THEN "BackupException"
    ELSE ""

\* BackupManager.restore_backup: "" when it copies, else the exception raised.
restore_error(backup, target, force) ==
    IF ~backup.exists THEN "BackupException"
    ELSE IF ~force /\ target.exists /\ target.mtime > backup.mtime
         THEN "BackupException"
    ELSE ""

\* shutil.copy2 copies content and modification time.
copy2(src) == File(src.content, src.mtime)

\* Variant of EditFileReturns without the finally clause of edit_file.
EditFileReturns_keeps_active(o, res) ==
    /\ metadata' = [metadata EXCEPT ![o].completed_at = now]
    /\ operation_history' = Append(operation_history, o)
    /\ active_operations' = active_operations
    /\ results' = [results EXCEPT ![o] = res]
    /\ pc' = [pc EXCEPT ![o] = "done"]

\* edit_file, lines 99-115: the call returns `res`.
EditFileReturns(o, res) ==
    /\ metadata' = [metadata EXCEPT ![o].completed_at = now]
    /\ operation_history' = Append(operation_history, o)
    /\ active_operations' = active_operations \ {o}
    /\ results' = [results EXCEPT ![o] = res]
    /\ pc' = [pc EXCEPT ![o] = "done"]

\* Variant of ReleaseLockAndSlot that leaves `async with operation_semaphore`
\* without releasing the slot.
ReleaseLock_keeps_slot(o) ==
    LET p == req[o].file_path IN
    /\ IF UsesPortalocker(req[o])
       THEN /\ flocked' = flocked \ {held_inode[o]}
            /\ held_inode' = [held_inode EXCEPT ![o] = 0]
            /\ lock_files' = [lock_files EXCEPT ![LockFileOf(p)] = 0]
            /\ UNCHANGED file_locks
       ELSE /\ file_locks' = [file_locks EXCEPT ![p].owner = 0]
            /\ UNCHANGED <<flocked, held_inode, lock_files>>
    /\ operation_semaphore' = operation_semaphore

\* Leaving `async with file_lock` (line 215) or the with/finally blocks of
\* _execute_with_portalocker (lines 234-244), then the semaphore (line 96).
ReleaseLockAndSlot(o) ==
    LET p == req[o].file_path IN
    /\ IF UsesPortalocker(req[o])
       THEN /\ flocked' = flocked \ {held_inode[o]}
            /\ held_inode' = [held_inode EXCEPT ![o] = 0]
            /\ lock_files' = [lock_files EXCEPT ![LockFileOf(p)] = 0]
            /\ UNCHANGED file_locks
       ELSE /\ file_locks' = [file_locks EXCEPT ![p].owner = 0]
            /\ UNCHANGED <<flocked, held_inode, lock_files>>
    /\ operation_semaphore' = operation_semaphore + 1

\* ---------------------------------------------------------------- actions
\* edit_file, lines 75-93 and 105-115: the request fails _validate_request
\* or has no strategy.
EditFileRejected(o, r) ==
    /\ running = 0
    /\ pc[o] = "idle" /\ next_call = o /\ o <= WorkloadOf(workload).calls
    /\ edit_file_error(r) # ""
    /\ next_call' = o + 1
    /\ req' = [req EXCEPT ![o] = r]
    /\ metadata' = [metadata EXCEPT
           ![o] = [OperationMetadata(generate_operation_id(o), r.file_path, now)
                       EXCEPT !.completed_at = now]]
    /\ operation_history' = Append(operation_history, o)
    /\ results' = [results EXCEPT ![o] =
           error_result(generate_operation_id(o), r.file_path, edit_file_error(r))]
    /\ pc' = [pc EXCEPT ![o] = "done"]
    /\ content_at_call' = [content_at_call EXCEPT
           ![o] = IF Exists(r.file_path) THEN files[FileOf(r.file_path)].content ELSE <<>>]
    /\ running' = 0
    /\ UNCHANGED <<writes_since, rollback_result, strategy_vars, workload, config,
                   HAS_PORTALOCKER, run_queue, now, files, lock_files, flocked,
                   held_inode, file_locks, operation_semaphore, active_operations,
                   backups, backup_info, outcome, suspended_at, last_locker>>

\* edit_file, lines 75-96: metadata made, request valid, strategy found.  The
\* call goes on without suspending when the semaphore has a free slot.
EditFileAccepted(o, r) ==
    /\ running = 0
    /\ pc[o] = "idle" /\ next_call = o /\ o <= WorkloadOf(workload).calls
    /\ edit_file_error(r) = ""
    /\ next_call' = o + 1
    /\ req' = [req EXCEPT ![o] = r]
    /\ metadata' = [metadata EXCEPT
           ![o] = OperationMetadata(generate_operation_id(o), r.file_path, now)]
    /\ active_operations' = active_operations \cup {o}
    /\ pc' = [pc EXCEPT ![o] = "sem"]
    /\ content_at_call' = [content_at_call EXCEPT ![o] = files[FileOf(r.file_path)].content]
    /\ running' = IF ~semaphore_locked THEN o ELSE 0
    /\ UNCHANGED <<writes_since, rollback_result, strategy_vars, workload, config,
                   HAS_PORTALOCKER, run_queue, now, files, lock_files, flocked,
                   held_inode, file_locks, operation_semaphore, operation_history,
                   backups, backup_info, outcome, results, suspended_at, last_locker>>

\* Line 96 (semaphore acquired) and lines 203-209 (file_locks entry).  The call
\* suspends when it is to take an asyncio.Lock that is held.
AcquireSlot(o) ==
    /\ running \in {0, o}
    /\ pc[o] = "sem"
    /\ ~semaphore_locked
    /\ operation_semaphore' = operation_semaphore - 1
    /\ file_locks' = [file_locks EXCEPT ![req[o].file_path].present = TRUE]
    /\ suspended_at' = [suspended_at EXCEPT ![o] = now]
    /\ pc' = [pc EXCEPT ![o] = "lock"]
    /\ running' = IF UsesPortalocker(req[o]) \/ ~locked(req[o].file_path)
                   THEN o ELSE 0
    /\ UNCHANGED <<writes_since, rollback_result, strategy_vars, workload, config,
                   HAS_PORTALOCKER, run_queue, now, next_call, req, files, lock_files,
                   flocked, held_inode, active_operations, metadata,
                   operation_history, backups, backup_info, outcome, results,
                   last_locker, content_at_call>>

\* Line 215: `async with file_lock` entered.
AcquireFileLock(o) ==
    LET p == req[o].file_path IN
    /\ running \in {0, o}
    /\ pc[o] = "lock"
    /\ ~UsesPortalocker(req[o])
    /\ ~locked(p)
    /\ file_locks' = [file_locks EXCEPT ![p].owner = o]
    /\ last_locker' = [last_locker EXCEPT ![p] = o]
    /\ pc' = [pc EXCEPT ![o] = "locked"]
    /\ running' = o
    /\ UNCHANGED <<writes_since, rollback_result, strategy_vars, workload, config,
                   HAS_PORTALOCKER, run_queue, now, next_call, req, files, lock_files,
                   flocked, held_inode, operation_semaphore, active_operations,
                   metadata, operation_history, backups, backup_info, outcome,
                   results, suspended_at, content_at_call>>

\* Line 228: open(lock_file_path, 'w') opens the file at that name, making a
\* new file (a new inode) when there is none.
opened_inode(o) ==
    IF lock_files[LockFileOf(req[o].file_path)] = 0 THEN o ELSE lock_files[LockFileOf(req[o].file_path)]

\* Lines 228-230: lock file opened, non-blocking exclusive lock obtained.
PortalockerAcquire(o) ==
    LET p == req[o].file_path IN
    /\ running = o
    /\ pc[o] = "lock"
    /\ UsesPortalocker(req[o])
    /\ opened_inode(o) \notin flocked
    /\ lock_files' = [lock_files EXCEPT ![LockFileOf(p)] = opened_inode(o)]
    /\ flocked' = flocked \cup {opened_inode(o)}
    /\ held_inode' = [held_inode EXCEPT ![o] = opened_inode(o)]
    /\ last_locker' = [last_locker EXCEPT ![p] = o]
    /\ pc' = [pc EXCEPT ![o] = "locked"]
    /\ running' = o
    /\ UNCHANGED <<writes_since, rollback_result, strategy_vars, workload, config,
                   HAS_PORTALOCKER, run_queue, now, next_call, req, files, file_locks,
                   operation_semaphore, active_operations, metadata,
                   operation_history, backups, backup_info, outcome, results,
                   suspended_at, content_at_call>>

\* Lines 228-230 and 237-244: the lock is held elsewhere, portalocker raises
\* LockException, the finally block unlinks the lock file, and edit_file
\* (lines 105-112) returns the FileLockedException as a failure result.
PortalockerLocked(o) ==
    LET p == req[o].file_path IN
    /\ running = o
    /\ pc[o] = "lock"
    /\ UsesPortalocker(req[o])
    /\ opened_inode(o) \in flocked
    /\ lock_files' = [lock_files EXCEPT ![LockFileOf(p)] = 0]
    /\ operation_semaphore' = operation_semaphore + 1
    /\ EditFileReturns(o, error_result(generate_operation_id(o), p, "FileLockedException"))
    /\ running' = 0
    /\ UNCHANGED <<writes_since, rollback_result, strategy_vars, workload, config,
                   HAS_PORTALOCKER, run_queue, now, next_call, req, files, flocked,
                   held_inode, file_locks, backups, backup_info, outcome,
                   suspended_at, last_locker, content_at_call>>

\* _execute_edit, lines 249-263: the backup step, then asyncio.wait_for
\* starts strategy.edit and suspends.  create_backup (lines 390-419) copies the
\* file with copy2 under a name holding the operation id.
BeginExecuteEdit(o) ==
    LET r == req[o]
        p == r.file_path
        info == BackupInfo(generate_operation_id(o), p, files[FileOf(p)].content)
    IN
    /\ running = o
    /\ pc[o] = "locked"
    /\ IF WantsBackup(r)
       THEN /\ backups' = [backups EXCEPT ![generate_operation_id(o)] = copy2(files[FileOf(p)])]
            /\ backup_info' = [backup_info EXCEPT ![o] = info]
            /\ metadata' = IF o \in active_operations
                           THEN [metadata EXCEPT ![o].backup_info = info]
                           ELSE metadata
       ELSE UNCHANGED <<backups, backup_info, metadata>>
    /\ suspended_at' = [suspended_at EXCEPT ![o] = now]
    /\ pc' = [pc EXCEPT ![o] = "run"]
    /\ running' = 0
    /\ run_queue' = Append(run_queue, o)
    /\ UNCHANGED <<writes_since, rollback_result, strategy_vars, workload, config,
                   HAS_PORTALOCKER, now, next_call, req, files, lock_files,
                   flocked, held_inode, file_locks, operation_semaphore,
                   active_operations, operation_history, outcome, results,
                   last_locker, content_at_call>>

\* Lines 253-256, 421-422 and 282-288: copy2 fails in create_backup, which
\* raises BackupException; no backup_info, so nothing is restored; the lock and
\* the slot are released and edit_file returns the failure.
CreateBackupFails(o) ==
    /\ running = o
    /\ pc[o] = "locked"
    /\ WantsBackup(req[o])
    /\ ReleaseLockAndSlot(o)
    /\ EditFileReturns(o, error_result(generate_operation_id(o), req[o].file_path,
                                       "BackupException"))
    /\ running' = 0
    /\ UNCHANGED <<writes_since, rollback_result, strategy_vars, workload, config,
                   HAS_PORTALOCKER, run_queue, now, next_call, req, files, backups,
                   backup_info, outcome, suspended_at, last_locker, content_at_call>>

\* writes_since after a write to path p: one more for every call that has
\* taken a backup of p.
NoteWrite(p) ==
    [o \in Ops |->
        IF FileOf(req[o].file_path) = FileOf(p) /\ backup_info[o] # NoBackupInfo /\ writes_since[o] < 2
        THEN writes_since[o] + 1
        ELSE writes_since[o]]

\* re.compile(pattern) (pattern_editor.py 52): whether the pattern compiles.
compiles(pattern) == \A i \in DOMAIN pattern : pattern[i] # "("

\* How the strategy.edit run of request r ends when the strategy by itself
\* behaves as b.  PatternEditor.edit (pattern_editor.py 67-90) starts with
\* validate_request (33-65), which raises ValidationException for a target
\* that re.compile refuses; edit catches it and returns error_result before
\* the file is opened.
behaviour_of(b, r) ==
    IF r.operation_type = "pattern" /\ ~compiles(r.target) THEN "validation_error"
    ELSE b

\* The file after a strategy.edit run of behaviour b on request r.
strategy_writes(b, r, file) ==
    IF b \in {"ok", "raise_dirty", "hang_dirty"}
        THEN File(edit_lines(file.content, edit_map_of(r)), now)
    ELSE IF b = "write_error" THEN File(<<>>, now)
    ELSE file

\* What strategy.edit hands to asyncio.wait_for.  The result carries the
\* operation id the strategy drew itself (line_editor.py line 58).
strategy_outcome(b, o, r, file) ==
    LET
        success_result(id, p, n) == EditResult(TRUE, id, p, "", n)
        strategy_operation_id == NumOps + o
    IN
        IF b = "ok"
            THEN [kind |-> "result", error |-> "",
                  result |-> success_result(strategy_operation_id, r.file_path,
                                            lines_changed(file.content, edit_map_of(r)))]
        ELSE IF b \in {"read_error", "write_error"}
            THEN [kind |-> "result", error |-> "",
                  result |-> error_result(strategy_operation_id, r.file_path, "OSError")]
        ELSE IF b = "validation_error"
            THEN [kind |-> "result", error |-> "",
                  result |-> error_result(strategy_operation_id, r.file_path,
                                          "ValidationException")]
        ELSE IF b \in {"hang", "hang_dirty"} THEN [kind |-> "pending", error |-> "", result |-> NoResult]
        ELSE [kind |-> "raise", error |-> "RuntimeError", result |-> NoResult]

\* strategy.edit(request) runs (line 264).
StrategyRuns(o, b) ==
    LET
        \* What a strategy.edit run does:
        \*   "ok"           LineEditor.edit reads, rewrites the file, returns success
        \*   "read_error"   LineEditor.edit fails before writing, returns error_result
        \*   "write_error"  open(.., 'w') truncated the file, the write raised,
        \*                  LineEditor.edit returns error_result (lines 114-115, 78-82)
        \*   "raise_clean"  a strategy raises before writing
        \*   "raise_dirty"  a strategy raises after writing its edit
        \*   "hang"         a strategy suspends before writing and does not finish
        \*   "hang_dirty"   a strategy writes its edit, suspends and does not finish
        \* (the set Behaviours).
        \* The behaviours in which strategy.edit opens the file for writing.
        writes_file ==
            behaviour_of(b, req[o]) \in {"ok", "write_error", "raise_dirty", "hang_dirty"}
    IN
        LET r == req[o]
            p == r.file_path
            ends == behaviour_of(b, r)
        IN
        /\ running = 0
        /\ pc[o] = "run"
        /\ run_queue # <<>> /\ Head(run_queue) = o
        /\ files' = [files EXCEPT ![FileOf(p)] = strategy_writes(ends, r, files[FileOf(p)])]
        /\ writes_since' = IF writes_file THEN NoteWrite(p) ELSE writes_since
        /\ outcome' = [outcome EXCEPT ![o] = strategy_outcome(ends, o, r, files[FileOf(p)])]
        /\ pc' = [pc EXCEPT ![o] = IF ends \in {"hang", "hang_dirty"} THEN "hung" ELSE "ran"]
        /\ running' = 0
        /\ run_queue' = Tail(run_queue)
        /\ UNCHANGED <<rollback_result, strategy_vars, workload, config,
                       HAS_PORTALOCKER, now, next_call, req, lock_files, flocked,
                       held_inode, file_locks, operation_semaphore, active_operations,
                       metadata, operation_history, backups, backup_info, results,
                       suspended_at, last_locker, content_at_call>>

\* Lines 268-272, then the lock and slot are released and edit_file returns
\* the strategy's result (lines 99-103).
ExecuteEditReturns(o) ==
    /\ running = 0
    /\ pc[o] = "ran"
    /\ outcome[o].kind = "result"
    /\ ReleaseLockAndSlot(o)
    /\ EditFileReturns(o, IF backup_info[o] # NoBackupInfo
                          THEN [outcome[o].result EXCEPT
                                    !.backup_path = backup_info[o].backup_path]
                          ELSE outcome[o].result)
    /\ running' = 0
    /\ UNCHANGED <<writes_since, rollback_result, strategy_vars, workload, config,
                   HAS_PORTALOCKER, run_queue, now, next_call, req, files, backups,
                   backup_info, outcome, suspended_at, last_locker, content_at_call>>

\* The except blocks of _execute_edit (lines 274-288) for the error `err`:
\* restore_backup(backup_path, file_path) with force=False when a backup was
\* taken; an exception it raises replaces `err`.  Then edit_file, lines 105-112.
RestoreAndFail(o, err) ==
    LET p == req[o].file_path
        backup == backups[backup_info[o].backup_path]
        rerr == restore_error(backup, files[FileOf(p)], FALSE)
    IN
    /\ IF backup_info[o] # NoBackupInfo
       THEN /\ files' = IF rerr = "" THEN [files EXCEPT ![FileOf(p)] = copy2(backup)] ELSE files
            /\ writes_since' = IF rerr = "" THEN NoteWrite(p) ELSE writes_since
            /\ EditFileReturns(o, error_result(generate_operation_id(o), p,
                                               IF rerr = "" THEN err ELSE rerr))
       ELSE /\ UNCHANGED <<files, writes_since>>
            /\ EditFileReturns(o, error_result(generate_operation_id(o), p, err))
    /\ ReleaseLockAndSlot(o)

\* Lines 282-288: strategy.edit raised.
ExecuteEditExcept(o) ==
    /\ running = 0
    /\ pc[o] = "ran"
    /\ outcome[o].kind = "raise"
    /\ RestoreAndFail(o, outcome[o].error)
    /\ running' = 0
    /\ UNCHANGED <<rollback_result, strategy_vars, workload, config,
                   HAS_PORTALOCKER, run_queue, now, next_call, req, backups,
                   backup_info, outcome, suspended_at, last_locker, content_at_call>>

\* Lines 263-266 and 274-280: timeout_seconds passed with strategy.edit
\* unfinished; wait_for cancels it and raises TimeoutError.
ExecuteEditTimeout(o) ==
    /\ running = 0
    /\ pc[o] = "hung"
    /\ now - suspended_at[o] >= req[o].options.timeout_seconds
    /\ RestoreAndFail(o, "EditorException")
    /\ running' = 0
    /\ UNCHANGED <<rollback_result, strategy_vars, workload, config,
                   HAS_PORTALOCKER, run_queue, now, next_call, req, backups,
                   backup_info, outcome, suspended_at, last_locker, content_at_call>>

\* Time passes while every call is waiting (for a lock, a slot, a hung
\* strategy) or has returned; the steps of a running coroutine take no time.
Tick ==
    LET
        \* Call o is ready: the event loop can resume it now.
        Runnable(o) ==
            \/ pc[o] = "sem" /\ ~semaphore_locked
            \/ pc[o] = "lock" /\ ~locked(req[o].file_path)
            \/ pc[o] \in {"run", "ran"}
            \/ pc[o] = "hung" /\ now - suspended_at[o] >= req[o].options.timeout_seconds
    IN
        /\ running = 0
        /\ \A o \in Ops : ~Runnable(o)
        /\ now + TickSeconds <= MaxTicks * TickSeconds
        /\ now' = now + TickSeconds
        /\ UNCHANGED <<writes_since, rollback_result, strategy_vars, workload, config,
                       HAS_PORTALOCKER, running, run_queue, next_call, pc, req, files, lock_files,
                       flocked, held_inode, file_locks, operation_semaphore,
                       active_operations, metadata, operation_history, backups,
                       backup_info, outcome, results, suspended_at, last_locker,
                       content_at_call>>

Next ==
    \/ \E o \in Ops : \E r \in RequestSet(o) : EditFileRejected(o, r)
    \/ \E o \in Ops : \E r \in RequestSet(o) : EditFileAccepted(o, r)
    \/ \E o \in Ops : AcquireSlot(o)
    \/ \E o \in Ops : AcquireFileLock(o)
    \/ \E o \in Ops : PortalockerAcquire(o)
    \/ \E o \in Ops : PortalockerLocked(o)
    \/ \E o \in Ops : BeginExecuteEdit(o)
    \/ \E o \in Ops : CreateBackupFails(o)
    \/ \E o \in Ops : \E b \in WorkloadOf(workload).behaviours : StrategyRuns(o, b)
    \/ \E o \in Ops : ExecuteEditReturns(o)
    \/ \E o \in Ops : ExecuteEditExcept(o)
    \/ \E o \in Ops : ExecuteEditTimeout(o)
    \/ Tick

Spec == Init /\ [][Next]_vars

SpecSameFile == InitSameFile /\ [][Next]_vars

SpecLifecycle == InitLifecycle /\ [][Next]_vars

SpecSameLine == InitSameLine /\ [][Next]_vars

SpecOutcomes == InitOutcomes /\ [][Next]_vars

SpecAliases == InitAliases /\ [][Next]_vars

\* A deployment with backups enabled or not, whose callers issue the calls of
\* the "validation" workload.
SpecValidation == InitWith("validation", Configs, BOOLEAN) /\ [][Next]_vars

\* What the event loop does by itself once calls have been made: it resumes
\* a coroutine that is ready, and when none is ready and a call waits for its
\* timeout, time passes.
EventLoop ==
    \/ \E o \in Ops : AcquireSlot(o)
    \/ \E o \in Ops : AcquireFileLock(o)
    \/ \E o \in Ops : PortalockerAcquire(o)
    \/ \E o \in Ops : PortalockerLocked(o)
    \/ \E o \in Ops : BeginExecuteEdit(o)
    \/ \E o \in Ops : CreateBackupFails(o)
    \/ \E o \in Ops : \E b \in WorkloadOf(workload).behaviours : StrategyRuns(o, b)
    \/ \E o \in Ops : ExecuteEditReturns(o)
    \/ \E o \in Ops : ExecuteEditExcept(o)
    \/ \E o \in Ops : ExecuteEditTimeout(o)
    \/ (\E o \in Ops : pc[o] = "hung") /\ Tick

NextProgress ==
    \/ \E o \in Ops : \E r \in RequestSet(o) : EditFileRejected(o, r)
    \/ \E o \in Ops : \E r \in RequestSet(o) : EditFileAccepted(o, r)
    \/ EventLoop

\* The calls of the "same_line" workload on an event loop that keeps running:
\* the loop runs a ready callback whenever there is one (asyncio runs its
\* ready queue in order), the callers may stop calling at any time.
SpecProgress == InitSameLine /\ [][NextProgress]_vars /\ WF_vars(EventLoop)

\* The calls of the "slots" workload: the built-in line strategy, which
\* returns its failures, no failing backup, and no time passing (no call of
\* the workload waits for a timeout).
NextSlots ==
    \/ \E o \in Ops : \E r \in RequestSet(o) : EditFileRejected(o, r)
    \/ \E o \in Ops : \E r \in RequestSet(o) : EditFileAccepted(o, r)
    \/ \E o \in Ops : AcquireSlot(o)
    \/ \E o \in Ops : AcquireFileLock(o)
    \/ \E o \in Ops : PortalockerAcquire(o)
    \/ \E o \in Ops : PortalockerLocked(o)
    \/ \E o \in Ops : BeginExecuteEdit(o)
    \/ \E o \in Ops : \E b \in WorkloadOf(workload).behaviours : StrategyRuns(o, b)
    \/ \E o \in Ops : ExecuteEditReturns(o)

SpecSlots == InitSlots /\ [][NextSlots]_vars

\* rollback (lines 156-198).  It takes no lock and no slot and does not
\* suspend, so it runs whenever no other coroutine is running.
\* `restore_backup` raising is caught at lines 195-198.
Rollback(id, force) ==
    LET found == {i \in DOMAIN operation_history :
                      metadata[operation_history[i]].operation_id = id}
        first == CHOOSE i \in found : \A j \in found : i <= j
        operation == metadata[operation_history[first]]
        p == operation.file_path
        backup == backups[operation.backup_info.backup_path]
        rerr == restore_error(backup, files[FileOf(p)], force)
        answer(res) == rollback_result' = [result |-> res, calls |-> rollback_result.calls + 1]
    IN
    /\ running = 0
    /\ rollback_result.calls < MaxRollbacks
    /\ IF found = {}
       THEN /\ answer(RollbackResult(FALSE, id, "", "not found", force))
            /\ UNCHANGED <<files, writes_since>>
       ELSE IF operation.backup_info = NoBackupInfo
       THEN /\ answer(RollbackResult(FALSE, id, p, "No backup available", force))
            /\ UNCHANGED <<files, writes_since>>
       ELSE IF rerr # ""
       THEN /\ answer(RollbackResult(FALSE, id, p, rerr, force))
            /\ UNCHANGED <<files, writes_since>>
       ELSE /\ answer(RollbackResult(TRUE, id, p, "", force))
            /\ files' = [files EXCEPT ![FileOf(p)] = copy2(backup)]
            /\ writes_since' = NoteWrite(p)
    /\ UNCHANGED <<strategy_vars, workload, config, HAS_PORTALOCKER, now,
                   running, run_queue, next_call, pc, req, lock_files, flocked,
                   held_inode, file_locks, operation_semaphore, active_operations,
                   metadata, operation_history, backups, backup_info, outcome,
                   results, suspended_at, last_locker, content_at_call>>

\* Without portalocker, with strategies that neither raise nor hang and with
\* a backup directory that takes every copy, the portalocker path and the
\* except blocks of _execute_edit and create_backup are never entered.  The
\* callers call rollback while no edit_file call is in flight.
NextRollback ==
    LET
        \* The operation ids a caller of rollback can hold: those of the calls made
        \* (list_active_operations, the history) and those of the results returned.
        KnownIds ==
            {generate_operation_id(o) : o \in {c \in Ops : pc[c] # "idle"}}
                \cup {results[o].operation_id : o \in {c \in Ops : pc[c] = "done"}}
    IN
        \/ \E o \in Ops : \E r \in RequestSet(o) : EditFileRejected(o, r)
        \/ \E o \in Ops : \E r \in RequestSet(o) : EditFileAccepted(o, r)
        \/ \E o \in Ops : AcquireSlot(o)
        \/ \E o \in Ops : AcquireFileLock(o)
        \/ \E o \in Ops : BeginExecuteEdit(o)
        \/ \E o \in Ops : \E b \in WorkloadOf(workload).behaviours : StrategyRuns(o, b)
        \/ \E o \in Ops : ExecuteEditReturns(o)
        \/ Tick
        \/ \E id \in KnownIds : \E force \in BOOLEAN :
              /\ \A o \in Ops : pc[o] \in {"idle", "done"}
              /\ Rollback(id, force)

SpecRollback == InitRollback /\ [][NextRollback]_vars

\* The same deployment with callers that call rollback at any time, also while
\* an edit_file call is in flight, for the operations that have returned.
NextInFlight ==
    LET
        ReturnedIds == {generate_operation_id(o) : o \in {c \in Ops : pc[c] = "done"}}
    IN
        \/ \E o \in Ops : \E r \in RequestSet(o) : EditFileRejected(o, r)
        \/ \E o \in Ops : \E r \in RequestSet(o) : EditFileAccepted(o, r)
        \/ \E o \in Ops : AcquireSlot(o)
        \/ \E o \in Ops : AcquireFileLock(o)
        \/ \E o \in Ops : BeginExecuteEdit(o)
        \/ \E o \in Ops : \E b \in WorkloadOf(workload).behaviours : StrategyRuns(o, b)
        \/ \E o \in Ops : ExecuteEditReturns(o)
        \/ Tick
        \/ \E id \in ReturnedIds : \E force \in BOOLEAN : Rollback(id, force)

SpecInFlight == InitRollback /\ [][NextInFlight]_vars

\* BackupManager.cleanup_old_backups (service.py 451-460), called through
\* EditorService.cleanup_old_backups (377-379): every backup file whose
\* st_mtime is before the cutoff is unlinked.  It does not suspend.
cleanup_old_backups ==
    LET cutoff_time == now - backup_retention_days * 24 * 3600 IN
    /\ running = 0
    /\ backups' = [id \in DOMAIN backups |->
                      IF backups[id].exists /\ backups[id].mtime < cutoff_time
                      THEN NoFile ELSE backups[id]]
    /\ UNCHANGED <<writes_since, rollback_result, strategy_vars, workload, config,
                   HAS_PORTALOCKER, now, running, run_queue, next_call, pc, req,
                   files, lock_files, flocked, held_inode, file_locks,
                   operation_semaphore, active_operations, metadata,
                   operation_history, backup_info, outcome, results, suspended_at,
                   last_locker, content_at_call>>

\* The calls of the "retention" workload, with a periodic caller of
\* cleanup_old_backups and callers of rollback.
NextRetention ==
    LET
        ReturnedIds == {generate_operation_id(o) : o \in {c \in Ops : pc[c] = "done"}}
    IN
        \/ \E o \in Ops : \E r \in RequestSet(o) : EditFileRejected(o, r)
        \/ \E o \in Ops : \E r \in RequestSet(o) : EditFileAccepted(o, r)
        \/ \E o \in Ops : AcquireSlot(o)
        \/ \E o \in Ops : AcquireFileLock(o)
        \/ \E o \in Ops : BeginExecuteEdit(o)
        \/ \E o \in Ops : \E b \in WorkloadOf(workload).behaviours : StrategyRuns(o, b)
        \/ \E o \in Ops : ExecuteEditReturns(o)
        \/ Tick
        \/ cleanup_old_backups
        \/ \E id \in ReturnedIds : \E force \in BOOLEAN : Rollback(id, force)

SpecRetention == InitWith("retention", BackupConfigs, {FALSE}) /\ [][NextRetention]_vars

\* ------------------------------------------------------- read-only queries
\* get_operation_status, lines 333-361: the 'status' it reports for an id
\* ("none" when it returns None).
get_operation_status(id) ==
    IF id \in active_operations THEN "active"
    ELSE IF \E i \in DOMAIN operation_history :
                metadata[operation_history[i]].operation_id = id
         THEN "completed"
    ELSE "none"

\* get_operation_status(id) is called.
GetOperationStatus(id) ==
    /\ running = 0
    /\ query' = Query("get_operation_status", id, "", <<>>, get_operation_status(id), {})
    /\ UNCHANGED <<text, strategy_result, HAS_IN_PLACE, ast_vars, workload, config,
                   HAS_PORTALOCKER, now, running, run_queue, next_call, pc, req,
                   files, lock_files, flocked, held_inode, file_locks,
                   operation_semaphore, active_operations, metadata,
                   operation_history, backups, backup_info, outcome, results,
                   suspended_at, last_locker, content_at_call, writes_since,
                   rollback_result>>

\* list_active_operations (service.py 363-375) is called: the ids listed.
ListActiveOperations ==
    /\ running = 0
    /\ query' = Query("list_active_operations", 0, "", <<>>, "",
                      {metadata[o].operation_id : o \in active_operations})
    /\ UNCHANGED <<text, strategy_result, HAS_IN_PLACE, ast_vars, workload, config,
                   HAS_PORTALOCKER, now, running, run_queue, next_call, pc, req,
                   files, lock_files, flocked, held_inode, file_locks,
                   operation_semaphore, active_operations, metadata,
                   operation_history, backups, backup_info, outcome, results,
                   suspended_at, last_locker, content_at_call, writes_since,
                   rollback_result>>

\* PatternEditor.search_pattern (pattern_editor.py 211-236) on the file at p,
\* for a pattern that is the text of a line: the line numbers of the matches,
\* or the ValidationException that wraps a pattern that does not compile and
\* a file that cannot be opened.
SearchPattern(p, pattern) ==
    LET file == files[FileOf(p)]
        matches == {i \in DOMAIN file.content : <<file.content[i][1]>> = pattern}
    IN
    /\ running = 0
    /\ query' = IF ~compiles(pattern) \/ ~Exists(p)
                THEN Query("search_pattern", 0, p, pattern, "ValidationException", {})
                ELSE Query("search_pattern", 0, p, pattern, "", matches)
    /\ UNCHANGED <<text, strategy_result, HAS_IN_PLACE, ast_vars, workload, config,
                   HAS_PORTALOCKER, now, running, run_queue, next_call, pc, req,
                   files, lock_files, flocked, held_inode, file_locks,
                   operation_semaphore, active_operations, metadata,
                   operation_history, backups, backup_info, outcome, results,
                   suspended_at, last_locker, content_at_call, writes_since,
                   rollback_result>>

\* PatternEditor.validate_pattern (pattern_editor.py 242-283): it compiles the
\* pattern and reports 'valid'; it opens no file.
ValidatePattern(pattern) ==
    /\ running = 0
    /\ query' = Query("validate_pattern", 0, "", pattern,
                      IF compiles(pattern) THEN "valid" ELSE "invalid", {})
    /\ UNCHANGED <<text, strategy_result, HAS_IN_PLACE, ast_vars, workload, config,
                   HAS_PORTALOCKER, now, running, run_queue, next_call, pc, req,
                   files, lock_files, flocked, held_inode, file_locks,
                   operation_semaphore, active_operations, metadata,
                   operation_history, backups, backup_info, outcome, results,
                   suspended_at, last_locker, content_at_call, writes_since,
                   rollback_result>>

\* ASTEditor.analyze_ast (ast_editor.py 221-235) on the file at p: it reads
\* and parses the file, and wraps every exception in ValidationException.
AnalyzeAst(p) ==
    /\ running = 0
    /\ query' = Query("analyze_ast", 0, p, <<>>,
                      IF Exists(p) THEN "" ELSE "ValidationException", {})
    /\ UNCHANGED <<text, strategy_result, HAS_IN_PLACE, ast_vars, workload, config,
                   HAS_PORTALOCKER, now, running, run_queue, next_call, pc, req,
                   files, lock_files, flocked, held_inode, file_locks,
                   operation_semaphore, active_operations, metadata,
                   operation_history, backups, backup_info, outcome, results,
                   suspended_at, last_locker, content_at_call, writes_since,
                   rollback_result>>

\* The calls of the "rollback" workload, with callers of the read-only calls.
NextQueries ==
    LET
        \* Patterns: the text of an original line, of a new one, and one that
        \* does not compile.
        QueryPatterns == {<<"orig">>, <<"new">>, <<"(">>}
        QueryPaths == {"a.py", "missing.py"}
    IN
        \/ \E o \in Ops : \E r \in RequestSet(o) : EditFileRejected(o, r)
        \/ \E o \in Ops : \E r \in RequestSet(o) : EditFileAccepted(o, r)
        \/ \E o \in Ops : AcquireSlot(o)
        \/ \E o \in Ops : AcquireFileLock(o)
        \/ \E o \in Ops : BeginExecuteEdit(o)
        \/ \E o \in Ops : \E b \in WorkloadOf(workload).behaviours : StrategyRuns(o, b)
        \/ \E o \in Ops : ExecuteEditReturns(o)
        \/ \E id \in 1..(2 * NumOps) : GetOperationStatus(id)
        \/ ListActiveOperations
        \/ \E p \in QueryPaths : \E pattern \in QueryPatterns : SearchPattern(p, pattern)
        \/ \E pattern \in QueryPatterns : ValidatePattern(pattern)
        \/ \E p \in QueryPaths : AnalyzeAst(p)

SpecQueries == InitRollback /\ [][NextQueries]_vars

\* rollback, lines 160-170: whether the id is found in operation_history.
rollback_finds(id) ==
    \E i \in DOMAIN operation_history :
        metadata[operation_history[i]].operation_id = id

\* ------------------------------------------------------------ vocabulary
\* Call o is inside _execute_edit: from its backup step to its return.
InExecuteEdit(o) == pc[o] \in {"locked", "run", "ran", "hung"}

\* Call o holds a slot of the semaphore.
HoldsSlot(o) == pc[o] \in {"lock", "locked", "run", "ran", "hung"}

Issued == {o \in Ops : pc[o] # "idle"}

AllReturned == \A o \in Issued : pc[o] = "done"

\* No strategy run and no backup copy failed.
NoFaults ==
    LET
        \* The strategy run of call o did not end in a success result.
        StrategyFaulted(o) ==
            \/ outcome[o].kind \in {"raise", "pending"}
            \/ outcome[o].kind = "result" /\ ~outcome[o].result.success
    IN
        \A o \in Ops : ~StrategyFaulted(o) /\ results[o].error # "BackupException"

\* Number of entries of operation_history that are call o's metadata.
HistoryEntries(o) ==
    Cardinality({i \in DOMAIN operation_history : operation_history[i] = o})

\* The paths that _validate_request has to reject under the configuration
\* allowed_base_paths = {"/srv"}.
InvalidPaths == {"missing.py", "a.exe", "big.py", "/etc/x.py"}

\* ------------------------------------------------------------------ claims
\* C1: on the process-local lock path (atomic_operation false, or portalocker
\* not available) no two calls given the same file_path are inside
\* _execute_edit at the same time.
C1_LocalMutualExclusion ==
    \A o1, o2 \in Ops :
        ( /\ o1 # o2
          /\ InExecuteEdit(o1) /\ InExecuteEdit(o2)
          /\ ~UsesPortalocker(req[o1]) /\ ~UsesPortalocker(req[o2]) )
        => req[o1].file_path # req[o2].file_path

\* C1 witness: a call is inside _execute_edit under the asyncio lock while a
\* second call on the same path waits for that lock.
C1_Witness ==
    \E o1, o2 \in Ops :
        /\ o1 # o2
        /\ InExecuteEdit(o1) /\ ~UsesPortalocker(req[o1])
        /\ pc[o2] = "lock" /\ ~UsesPortalocker(req[o2])
        /\ req[o1].file_path = req[o2].file_path
        /\ file_locks[req[o1].file_path].owner = o1

\* C2: on the portalocker path (atomic_operation true, portalocker
\* available) no two calls on the same file are inside _execute_edit at the
\* same time, also after a contender failed to lock and cleaned up.
C2_PortalockerMutualExclusion ==
    \A o1, o2 \in Ops :
        ( /\ o1 # o2
          /\ InExecuteEdit(o1) /\ InExecuteEdit(o2)
          /\ UsesPortalocker(req[o1]) /\ UsesPortalocker(req[o2]) )
        => req[o1].file_path # req[o2].file_path

\* C3: when all issued calls are edit_line calls on "a.py" with default
\* options and pairwise different target lines, and nothing in the environment
\* failed, every call returns success and the file holds every new line.
C3_NoLostUpdates ==
    ( /\ AllReturned
      /\ \A o \in Issued : req[o].file_path = "a.py" /\ req[o].options = DefaultOptions
      /\ \A o1, o2 \in Issued : o1 # o2 => req[o1].target # req[o2].target
      /\ NoFaults )
    => \A o \in Issued :
          /\ results[o].success
          /\ files["a.py"].content[req[o].target] = NewContent(o)

\* C4: when all issued calls are edit_line calls on the same line of "a.py"
\* and nothing in the environment failed, the line ends up holding the content
\* of the call that took the file lock last, and the other lines are as before.
C4_LastLockerWins ==
    ( /\ AllReturned /\ Issued # {}
      /\ \A o \in Issued : req[o].file_path = "a.py"
      /\ \A o1, o2 \in Issued : req[o1].target = req[o2].target
      /\ NoFaults )
    => /\ last_locker["a.py"] \in Issued
       /\ Len(files["a.py"].content) = NumLines
       /\ \A i \in 1..NumLines :
            files["a.py"].content[i] =
                IF i = req[last_locker["a.py"]].target
                THEN NewContent(last_locker["a.py"])
                ELSE OriginalContent[i]

\* C4 witness: two calls on the same line have both returned success.
C4_Witness ==
    /\ AllReturned /\ NoFaults
    /\ \A o \in Issued : req[o].file_path = "a.py"
    /\ \E o1, o2 \in Issued :
        /\ o1 # o2
        /\ req[o1].target = req[o2].target
        /\ results[o1].success /\ results[o2].success

\* C5: when a backup was taken and strategy.edit raised, the file content at
\* the return of edit_file is its content at the call.
C5_RollbackOnFailure ==
    [][\A o \in Ops :
        ( /\ pc[o] = "ran" /\ pc'[o] = "done"
          /\ outcome[o].kind = "raise"
          /\ backup_info[o] # NoBackupInfo )
        => files'[req[o].file_path].content = content_at_call[o]]_vars

\* C6: when edit_file returns success=false for a call that took a backup,
\* the file content is the backed-up content.
C6_NoPartialWriteSurvives ==
    [][\A o \in Ops :
        ( /\ pc[o] # "done" /\ pc'[o] = "done"
          /\ ~results'[o].success
          /\ backup_info[o] # NoBackupInfo )
        => files'[req[o].file_path].content = backups[backup_info[o].backup_path].content]_vars

\* C7: a call that has returned has exactly one entry in operation_history,
\* with completed_at >= started_at, and no entry in active_operations.
C7_OperationLifecycle ==
    \A o \in Ops :
        pc[o] = "done" =>
            /\ HistoryEntries(o) = 1
            /\ metadata[o].completed_at >= metadata[o].started_at
            /\ o \notin active_operations

\* C7 witness: one call has returned success and another has returned a
\* timeout failure after waiting.
C7_Witness ==
    \E o1, o2 \in Ops :
        /\ pc[o1] = "done" /\ results[o1].success
        /\ pc[o2] = "done" /\ results[o2].error = "EditorException"
        /\ metadata[o2].completed_at > metadata[o2].started_at

\* C8: the operation_id of a returned EditResult is the call's own:
\* get_operation_status reports it completed and rollback finds it.
C8_ResultCarriesOperationId ==
    \A o \in Ops :
        pc[o] = "done" =>
            /\ results[o].operation_id = metadata[o].operation_id
            /\ get_operation_status(results[o].operation_id) = "completed"
            /\ rollback_finds(results[o].operation_id)

\* C9: a call whose path is missing, has a disallowed extension, is too big
\* or lies outside the allowed base paths returns a failure at once: it never
\* holds a slot, makes no backup, makes or takes no lock on its path, and the
\* file is unchanged.
C9_ValidationNoSideEffects ==
    /\ \A o \in Issued :
        req[o].file_path \in InvalidPaths =>
            /\ pc[o] = "done"
            /\ ~results[o].success /\ results[o].error # ""
            /\ backups[o] = NoFile
            /\ held_inode[o] = 0
            /\ Exists(req[o].file_path) =>
                /\ files[req[o].file_path] = File(OriginalContent, 0)
                /\ file_locks[req[o].file_path] = [present |-> FALSE, owner |-> 0]
                /\ lock_files[req[o].file_path] = 0
    /\ operation_semaphore =
            max_concurrent_operations - Cardinality({o \in Ops : HoldsSlot(o)})

\* C9 witness: a call was rejected while another call was inside
\* _execute_edit.
C9_Witness ==
    \E o1, o2 \in Ops :
        /\ InExecuteEdit(o1)
        /\ pc[o2] = "done" /\ req[o2].file_path \in InvalidPaths

\* C10: a call fails with FileLocked only after it has waited
\* lock_timeout_seconds for the file lock, and no call waits longer than that.
C10_LockTimeout ==
    \A o \in Ops :
        /\ (pc[o] = "done" /\ results[o].error = "FileLockedException")
              => metadata[o].completed_at - suspended_at[o] >= lock_timeout_seconds
        /\ pc[o] = "lock" => now - suspended_at[o] <= lock_timeout_seconds

\* The error a failed strategy.edit run of call o leaves _execute_edit with:
\* the exception it raised, or the timeout error of line 280.
original_error(o) ==
    IF outcome[o].kind = "raise" THEN outcome[o].error ELSE "EditorException"

\* Call o is about to leave _execute_edit through one of its except blocks
\* with a backup whose restore (force=False) is refused or fails.
RestoreWillFail(o) ==
    /\ pc[o] \in {"ran", "hung"}
    /\ outcome[o].kind \in {"raise", "pending"}
    /\ backup_info[o] # NoBackupInfo
    /\ restore_error(backups[backup_info[o].backup_path],
                     files[req[o].file_path], FALSE) # ""

\* C11: when strategy.edit has not finished within options.timeout_seconds,
\* edit_file returns a failure whose error is the timeout error, the file holds
\* the backup content unless the restore was refused, and the strategy is not
\* run a second time.
C11_StrategyTimeout ==
    [][\A o \in Ops :
        /\ (pc[o] = "hung" /\ pc'[o] = "done") =>
              /\ ~results'[o].success
              /\ results'[o].error = "EditorException"
              /\ (backup_info[o] # NoBackupInfo /\ ~RestoreWillFail(o)) =>
                    files'[req[o].file_path].content =
                        backups[backup_info[o].backup_path].content
        /\ outcome'[o] # outcome[o] => pc[o] = "run"]_vars

\* edit_file, lines 109-110: the errors the text of result.error reports;
\* the text is str(e) of the one exception that reached edit_file.
errors_reported(res) == IF res.error = "" THEN {} ELSE {res.error}

\* C12: when the restore attempted after a strategy exception or timeout
\* fails, the error of the returned failure result reports the original error
\* and the restore failure.
C12_RestoreFailureReported ==
    [][\A o \in Ops :
        (RestoreWillFail(o) /\ pc'[o] = "done") =>
            /\ ~results'[o].success
            /\ {original_error(o), "BackupException"} \subseteq errors_reported(results'[o])]_vars

\* C13: when call o took a backup, then at the moment its strategy starts
\* running its metadata carries a backup_info whose checksum, and whose backup
\* file content, are the content of the target file at that moment.
C13_BackupMatchesFile ==
    [][\A o \in Ops :
        ( /\ pc[o] = "run" /\ pc'[o] \in {"ran", "hung"}
          /\ WantsBackup(req[o]) )
        => /\ metadata[o].backup_info # NoBackupInfo
           /\ metadata[o].backup_info.checksum = files[req[o].file_path].content
           /\ backups[metadata[o].backup_info.backup_path].content =
                  files[req[o].file_path].content]_vars

\* The step is a rollback call (its RollbackResult is rollback_result').
RollbackStep == rollback_result'.calls # rollback_result.calls

\* The step is a rollback call for the operation id of call o, which is in
\* operation_history with a backup_info.
RollbackOf(o, force) ==
    /\ RollbackStep
    /\ rollback_result'.result.operation_id = metadata[o].operation_id
    /\ rollback_result'.result.force = force
    /\ HistoryEntries(o) = 1
    /\ metadata[o].backup_info # NoBackupInfo

\* C14: create_backup followed by restore_backup with force=false, the file
\* not having been written in between, succeeds and leaves the file with the
\* content it had before the backup.
C14_BackupRoundTrip ==
    [][\A o \in Ops :
        (RollbackOf(o, FALSE) /\ writes_since[o] = 0) =>
            /\ rollback_result'.result.success
            /\ files'[metadata[o].file_path].content = metadata[o].backup_info.checksum
            /\ files'[metadata[o].file_path].content = files[metadata[o].file_path].content]_vars

\* C14 witness: no call has written the file, and the backup of a call whose
\* strategy failed before writing has been restored with force=false.
C14_Witness ==
    /\ rollback_result.result.success /\ ~rollback_result.result.force
    /\ \A o \in Ops : ~results[o].success
    /\ \E o \in Ops :
        /\ rollback_result.result.operation_id = metadata[o].operation_id
        /\ results[o].error = "OSError"
        /\ files[metadata[o].file_path].content = metadata[o].backup_info.checksum

\* C15: after a successful edit_file call that took a backup, the file having
\* been written by that edit only, rollback of the call with force=false
\* succeeds and leaves the file with its content before the edit.
C15_LateRollback ==
    [][\A o \in Ops :
        (RollbackOf(o, FALSE) /\ results[o].success /\ writes_since[o] = 1) =>
            /\ rollback_result'.result.success
            /\ files'[metadata[o].file_path].content = metadata[o].backup_info.checksum]_vars

\* C16: rollback answers 'not found' for an id that is not in history and
\* 'no backup available' for an operation without backup_info, fails when the
\* target is newer than the backup and force=false, leaves the target as it is
\* whenever it fails, and with force=true and an existing backup overwrites
\* the target with the backup content.
C16_RollbackOutcomes ==
    [][RollbackStep =>
        LET rr == rollback_result'.result IN
        /\ ~rollback_finds(rr.operation_id) =>
              ~rr.success /\ rr.error = "not found"
        /\ \A o \in Ops :
            (HistoryEntries(o) = 1 /\ metadata[o].operation_id = rr.operation_id) =>
                LET info == metadata[o].backup_info
                    p == metadata[o].file_path
                IN
                /\ info = NoBackupInfo =>
                      ~rr.success /\ rr.error = "No backup available"
                /\ ( /\ info # NoBackupInfo /\ ~rr.force
                     /\ files[p].mtime > backups[info.backup_path].mtime )
                   => ~rr.success
                /\ (info # NoBackupInfo /\ rr.force /\ backups[info.backup_path].exists)
                   => /\ rr.success
                      /\ files'[p].content = backups[info.backup_path].content
        /\ ~rr.success => files' = files]_vars

\* C16 witness: a forced rollback has put the original content back over a
\* successful edit made after the file's modification time.
C16_Witness ==
    /\ rollback_result.result.success /\ rollback_result.result.force
    /\ files["a.py"].content = OriginalContent
    /\ files["a.py"].mtime = 0
    /\ \E o \in Ops :
        /\ rollback_result.result.operation_id = metadata[o].operation_id
        /\ results[o].success
        /\ metadata[o].started_at > 0

\* ------------------------------------------- the strategies on file text

\* f.read() of a file opened with open(path, 'r') (line_editor.py 98-99,
\* pattern_editor.py 98-99): universal newlines turn CR LF and CR into LF.
RECURSIVE read_text(_)
read_text(bytes) ==
    IF bytes = <<>> THEN <<>>
    ELSE IF Head(bytes) = "CR"
         THEN <<"LF">> \o read_text(IF Len(bytes) >= 2 /\ bytes[2] = "LF"
                                    THEN Tail(Tail(bytes)) ELSE Tail(bytes))
    ELSE <<Head(bytes)>> \o read_text(Tail(bytes))

\* str.splitlines() (line_editor.py 100), `cur` being the line under way:
\* LF, CR, CR LF and FF end a line, and no empty line follows the last one.
RECURSIVE splitlines_from(_, _)
splitlines_from(s, cur) ==
    IF s = <<>> THEN (IF cur = <<>> THEN <<>> ELSE <<cur>>)
    ELSE IF Head(s) = "CR" /\ Len(s) >= 2 /\ s[2] = "LF"
         THEN <<cur>> \o splitlines_from(Tail(Tail(s)), <<>>)
    ELSE IF Head(s) \in {"LF", "CR", "FF"}
         THEN <<cur>> \o splitlines_from(Tail(s), <<>>)
    ELSE splitlines_from(Tail(s), Append(cur, Head(s)))

splitlines(s) == splitlines_from(s, <<>>)

\* '\n'.join(lines) (line_editor.py 110).
RECURSIVE join(_)
join(lines) ==
    IF lines = <<>> THEN <<>>
    ELSE IF Len(lines) = 1 THEN lines[1]
    ELSE lines[1] \o <<"LF">> \o join(Tail(lines))

\* The lines of a text, each with the "LF" that ends it (the last one may
\* have none): what iterating over a file opened in text mode gives
\* (pattern_editor.py 153, line_editor.py 173), and the lines of a file as
\* its bytes give them.  `cur` is the line under way.
RECURSIVE file_lines_from(_, _)
file_lines_from(bytes, cur) ==
    IF bytes = <<>> THEN (IF cur = <<>> THEN <<>> ELSE <<cur>>)
    ELSE IF Head(bytes) = "LF"
         THEN <<Append(cur, "LF")>> \o file_lines_from(Tail(bytes), <<>>)
    ELSE file_lines_from(Tail(bytes), Append(cur, Head(bytes)))

FileLines(bytes) == file_lines_from(bytes, <<>>)

NoneTarget == [shape |-> "None"]

\* Contents of a request: a str or a list of str.
StrContent(c) == [shape |-> "str", value |-> c]

ContentLists == {<<>>, <<(<<"y">>)>>, <<(<<"y">>), (<<"y", "y">>)>>}

\* EditorService.edit_range (service.py 130-141): the target it builds for
\* start_line and end_line is range(start_line, end_line + 1).
edit_range_target(start_line, end_line) ==
    LET
        RangeTarget(a, b) == [shape |-> "range", start |-> a, stop |-> b]
    IN
                                               RangeTarget(start_line, end_line + 1)

\* The (start_line, end_line) pairs callers hand to edit_range.
RangeBounds == {<<1, 1>>, <<1, 2>>, <<2, 3>>, <<2, MaxLen>>}

TextRequests ==
    LET
        \* A block of more than one line, ending with a line break.
        BlockContent == StrContent(<<"y", "LF", "y", "LF">>)
        \* EditRequest as the strategies see it (file_path and options left out).
        TextRequest(type, target, content) ==
            [operation_type |-> type, target |-> target, content |-> content]
        Contents ==
            LET
                ListContent(cs) == [shape |-> "list", value |-> cs]
            IN
                {StrContent(c) : c \in {<<>>, <<"y">>}}
                    \cup {ListContent(cs) : cs \in ContentLists}
        Targets ==
            LET
                \* Regular expressions: literal text, and "(" which does not compile.
                Patterns == {<<"x">>, <<"y">>, <<"x", "x">>, <<"LF">>, <<"LF", "x">>, <<"(">>}
                \* The values the callers use.
                LineNumberLists == {<<>>, <<1>>, <<1, 2>>, <<2, MaxLen>>}
                StrTarget(pat) == [shape |-> "str", pattern |-> pat]
                ListTarget(ns) == [shape |-> "list", line_numbers |-> ns]
                TupleTarget(ns, cs) == [shape |-> "tuple", line_numbers |-> ns, new_contents |-> cs]
                \* Targets of a request, by Python type: int, tuple (line_numbers,
                \* new_contents), list, range, str and None.
                IntTarget(n) == [shape |-> "int", n |-> n]
            IN
                {IntTarget(n) : n \in 0..MaxLen}
                    \cup {TupleTarget(ns, cs) : ns \in LineNumberLists, cs \in ContentLists}
                    \cup {ListTarget(ns) : ns \in LineNumberLists}
                    \cup {edit_range_target(b[1], b[2]) : b \in RangeBounds}
                    \cup {StrTarget(pat) : pat \in Patterns}
                    \cup {NoneTarget}
    IN
        {TextRequest(type, target, content) :
            type \in {"line", "range", "pattern", "append"},
            target \in Targets, content \in Contents}
        \cup {TextRequest("range", edit_range_target(b[1], b[2]), BlockContent) :
                b \in RangeBounds}
        \cup {TextRequest("append", NoneTarget, BlockContent)}

\* EditRequest.__post_init__ (interfaces.py 42-70): "" when the request is
\* constructed, else the exception raised.
__post_init__(r) ==
    LET
        \* `not x` for a str or a list.
        falsy(content) == content.value = <<>>
    IN
        IF r.operation_type = "line"
        THEN IF r.target.shape = "tuple"
             THEN IF \/ r.target.line_numbers = <<>>
                     \/ r.target.new_contents = <<>>
                     \/ Len(r.target.line_numbers) # Len(r.target.new_contents)
                  THEN "ValueError" ELSE ""
             ELSE IF r.target.shape # "int" THEN "ValueError"
             ELSE IF r.target.n < 1 THEN "ValueError"
             ELSE IF falsy(r.content) THEN "ValueError"
             ELSE ""
        ELSE IF r.operation_type = "range"
        THEN IF r.target.shape # "range" THEN "ValueError"
             ELSE IF falsy(r.content) THEN "ValueError"
             ELSE ""
        ELSE IF r.operation_type = "pattern"
        THEN IF r.target.shape # "str" THEN "ValueError" ELSE ""
        ELSE IF r.target.shape # "None" THEN "ValueError"
             ELSE IF falsy(r.content) THEN "ValueError"
             ELSE ""

\* LineEditor._edit_lines (line_editor.py 84-126) on a file holding `bytes`:
\* the exception raised ("" for none), the file afterwards and lines_changed.
\* '\n'.join raises TypeError on an element that is not a str, before the
\* file is opened for writing.
_edit_lines(r, bytes) ==
    LET
        \* Lines 86-95: the edit map, its values being the objects handed in.
        edit_map_from ==
            LET
                \* dict(zip(target_lines, new_contents)) (line_editor.py 95): zip stops at
                \* the shorter list and a later pair replaces an earlier one with its key.
                zip_edit_map(target_lines, new_contents) ==
                    LET k == IF Len(target_lines) < Len(new_contents)
                             THEN Len(target_lines) ELSE Len(new_contents)
                        last(n) == CHOOSE i \in 1..k :
                                       /\ target_lines[i] = n
                                       /\ \A j \in 1..k : target_lines[j] = n => j <= i
                    IN [n \in {target_lines[i] : i \in 1..k} |-> new_contents[last(n)]]
            IN
                IF r.target.shape = "int"
                THEN zip_edit_map(<<r.target.n>>, <<r.content>>)
                ELSE zip_edit_map(r.target.line_numbers,
                                  [i \in DOMAIN r.content.value |-> StrContent(r.content.value[i])])
        \* Lines 86-93: the two target shapes _edit_lines takes.
        edit_lines_shape_ok ==
            \/ r.target.shape = "int"
            \/ r.target.shape = "list" /\ r.content.shape = "list"
        \* original_content.endswith('\n') (line_editor.py 111).
        endswith_newline(s) == s # <<>> /\ s[Len(s)] = "LF"
    IN
        LET original_content == read_text(bytes)
            lines == splitlines(original_content)
            edit_map == edit_map_from
            modified_lines == edit_lines([i \in DOMAIN lines |-> StrContent(lines[i])],
                                         edit_map)
            joined == join([i \in DOMAIN modified_lines |-> modified_lines[i].value])
            modified_content == IF endswith_newline(original_content)
                                THEN joined \o <<"LF">> ELSE joined
        IN
        IF ~edit_lines_shape_ok
        THEN [error |-> "ValidationException", text |-> bytes, lines_changed |-> 0]
        ELSE IF \E i \in DOMAIN modified_lines : modified_lines[i].shape # "str"
        THEN [error |-> "TypeError", text |-> bytes, lines_changed |-> 0]
        ELSE [error |-> "", text |-> modified_content,
              lines_changed |-> lines_changed(lines, edit_map)]

\* The variables of the service, which the strategies run alone leave alone.
service_vars ==
    <<workload, config, HAS_PORTALOCKER, now, running, run_queue, next_call, pc,
      req, files, lock_files, flocked, held_inode, file_locks,
      operation_semaphore, active_operations, metadata, operation_history,
      backups, backup_info, outcome, results, suspended_at, last_locker,
      content_at_call, writes_since, rollback_result, query>>

\* EditRequest(...) is called with the fields of r.
Construct(r) ==
    /\ strategy_result.call = "none"
    /\ strategy_result' = StrategyResult("construct", r, __post_init__(r) = "",
                                         __post_init__(r), 0, 0)
    /\ UNCHANGED <<text, HAS_IN_PLACE, ast_vars, service_vars>>

\* The request r has been constructed and can be handed to a strategy, any
\* number of times.
Constructed(r) ==
    /\ strategy_result.call \in {"construct", "edit"}
    /\ strategy_result.request = r
    /\ __post_init__(r) = ""

\* LineEditor.edit (line_editor.py 55-82) on a LINE request: the result of
\* _edit_lines, or error_result for the exception it raised.
LineEdit(r) ==
    LET out == _edit_lines(r, text) IN
    /\ Constructed(r)
    /\ r.operation_type = "line"
    /\ text' = out.text
    /\ strategy_result' = StrategyResult("edit", r, out.error = "", out.error,
                                         out.lines_changed, 0)
    /\ UNCHANGED <<HAS_IN_PLACE, ast_vars, service_vars>>

\* s.split('\n') (line_editor.py 168 and 190), `cur` being the piece under way.
RECURSIVE split_from(_, _)
split_from(s, cur) ==
    IF s = <<>> THEN <<cur>>
    ELSE IF Head(s) = "LF" THEN <<cur>> \o split_from(Tail(s), <<>>)
    ELSE split_from(Tail(s), Append(cur, Head(s)))

split(s) == split_from(s, <<>>)

\* The pieces of a sequence of texts, one after the other.
RECURSIVE concat(_)
concat(pieces) ==
    IF pieces = <<>> THEN <<>> ELSE Head(pieces) \o concat(Tail(pieces))

\* LineEditor._edit_range (line_editor.py 128-161) with _edit_range_inplace
\* (163-183) or _edit_range_fileinput (185-210), which write the same: line
\* line_num of the file is kept unless line_num is in the range; the k-th
\* line in the range is replaced by the k-th content line and a line feed,
\* or dropped when the content has no k-th line.
_edit_range(r, bytes) ==
    LET original_content == read_text(bytes)
        lines == FileLines(original_content)
        start == IF r.target.start < 1 THEN 1 ELSE r.target.start
        in_range(line_num) == r.target.start <= line_num /\ line_num < r.target.stop
        content_lines == IF r.content.value = <<>> THEN <<>> ELSE split(r.content.value)
        written(line_num) ==
            IF ~in_range(line_num) THEN lines[line_num]
            ELSE IF line_num - start < Len(content_lines)
                 THEN content_lines[line_num - start + 1] \o <<"LF">>
            ELSE <<>>
    IN
    IF r.target.shape # "range" \/ r.content.shape # "str"
    THEN [error |-> "ValidationException", text |-> bytes, lines_changed |-> 0]
    ELSE [error |-> "", text |-> concat([i \in DOMAIN lines |-> written(i)]),
          lines_changed |-> Cardinality({i \in DOMAIN lines : in_range(i)})]

\* LineEditor.edit on a RANGE request.
RangeEdit(r) ==
    LET out == _edit_range(r, text) IN
    /\ Constructed(r)
    /\ r.operation_type = "range"
    /\ text' = out.text
    /\ strategy_result' = StrategyResult("edit", r, out.error = "", out.error,
                                         out.lines_changed, 0)
    /\ UNCHANGED <<HAS_IN_PLACE, ast_vars, service_vars>>

\* str.rstrip(): line breaks (and other white space) at the end are removed.
RECURSIVE rstrip(_)
rstrip(s) ==
    IF s = <<>> THEN <<>>
    ELSE IF s[Len(s)] \in {"LF", "CR", "FF"} THEN rstrip(SubSeq(s, 1, Len(s) - 1))
    ELSE s

\* LineEditor._append_block (line_editor.py 224-243): a line feed, the
\* content without its trailing white space and a line feed are written at
\* the end of the file; lines_changed is content.count('\n') + 1.
_append_block(r, bytes) ==
    IF r.content.shape # "str"
    THEN [error |-> "ValidationException", text |-> bytes, lines_changed |-> 0]
    ELSE [error |-> "",
          text |-> bytes \o <<"LF">> \o rstrip(r.content.value) \o <<"LF">>,
          lines_changed |-> Len(split(r.content.value))]

\* LineEditor.edit on an APPEND request.
AppendEdit(r) ==
    LET out == _append_block(r, text) IN
    /\ Constructed(r)
    /\ r.operation_type = "append"
    /\ Len(out.text) <= MaxLen + MaxBlock
    /\ text' = out.text
    /\ strategy_result' = StrategyResult("edit", r, out.error = "", out.error,
                                         out.lines_changed, 0)
    /\ UNCHANGED <<HAS_IN_PLACE, ast_vars, service_vars>>

\* len(list(compiled_pattern.finditer(s))) (lines 105-106) for a non-empty
\* literal pattern: the occurrences from the left that do not overlap.
RECURSIVE finditer_count(_, _)
finditer_count(pattern, s) ==
    IF Len(s) < Len(pattern) THEN 0
    ELSE IF SubSeq(s, 1, Len(pattern)) = pattern
         THEN 1 + finditer_count(pattern, SubSeq(s, Len(pattern) + 1, Len(s)))
    ELSE finditer_count(pattern, Tail(s))

\* compiled_pattern.sub(replacement, s) (line 172) for a literal pattern and
\* a replacement without group references.
RECURSIVE sub(_, _, _)
sub(pattern, replacement, s) ==
    IF Len(s) < Len(pattern) THEN s
    ELSE IF SubSeq(s, 1, Len(pattern)) = pattern
         THEN replacement \o sub(pattern, replacement,
                                 SubSeq(s, Len(pattern) + 1, Len(s)))
    ELSE <<Head(s)>> \o sub(pattern, replacement, Tail(s))

\* _edit_pattern_inplace (pattern_editor.py 145-158): each line of the file
\* goes through sub on its own.
RECURSIVE sub_each(_, _, _)
sub_each(pattern, replacement, lines) ==
    IF lines = <<>> THEN <<>>
    ELSE sub(pattern, replacement, Head(lines))
             \o sub_each(pattern, replacement, Tail(lines))

\* Lines 120-123: the write path taken.
replace_matches(pattern, replacement, content) ==
    LET
        _edit_pattern_inplace ==
            sub_each(pattern, replacement, FileLines(content))
        \* _edit_pattern_standard (pattern_editor.py 160-177): the whole content
        \* goes through sub.
        _edit_pattern_standard ==
            sub(pattern, replacement, content)
    IN
        IF HAS_IN_PLACE
        THEN _edit_pattern_inplace
        ELSE _edit_pattern_standard

\* _count_changed_lines(_generate_diff(original, modified)) (lines 185-209):
\* half the number of '-' and '+' lines of the unified diff, the diff being
\* taken line by line at equal positions.
count_changed_lines(original, modified) ==
    LET a == splitlines(original)
        b == splitlines(modified)
        minus == {i \in DOMAIN a : i > Len(b) \/ a[i] # b[i]}
        plus == {i \in DOMAIN b : i > Len(a) \/ a[i] # b[i]}
    IN (Cardinality(minus) + Cardinality(plus)) \div 2

\* Variant of _edit_pattern that writes the text it read back to the file
\* when nothing matched.
_edit_pattern_always_writes(r, bytes) ==
    LET pattern == r.target.pattern
        original_content == read_text(bytes)
        match_count == finditer_count(pattern, original_content)
        modified_content == replace_matches(pattern, r.content.value, original_content)
    IN
    IF ~compiles(pattern)
    THEN [error |-> "ValidationException", text |-> bytes,
          lines_changed |-> 0, matches_found |-> 0]
    ELSE IF match_count = 0
    THEN [error |-> "", text |-> original_content, lines_changed |-> 0,
          matches_found |-> 0]
    ELSE IF r.content.shape # "str"
    THEN [error |-> "TypeError", text |-> bytes,
          lines_changed |-> 0, matches_found |-> 0]
    ELSE [error |-> "", text |-> modified_content,
          lines_changed |-> count_changed_lines(original_content, modified_content),
          matches_found |-> match_count]

\* PatternEditor.edit (pattern_editor.py 67-90) with validate_request (45-54),
\* and _edit_pattern (92-143) on a file holding `bytes`: the exception turned
\* into error_result ("" for none), the file afterwards, lines_changed and
\* metadata["matches_found"].  sub raises TypeError on a replacement that is
\* not a str, before the file is written (InPlace puts the file back when
\* its block raises).
_edit_pattern(r, bytes) ==
    LET pattern == r.target.pattern
        original_content == read_text(bytes)
        match_count == finditer_count(pattern, original_content)
        modified_content == replace_matches(pattern, r.content.value, original_content)
    IN
    IF ~compiles(pattern)
    THEN [error |-> "ValidationException", text |-> bytes,
          lines_changed |-> 0, matches_found |-> 0]
    ELSE IF match_count = 0
    THEN [error |-> "", text |-> bytes, lines_changed |-> 0, matches_found |-> 0]
    ELSE IF r.content.shape # "str"
    THEN [error |-> "TypeError", text |-> bytes,
          lines_changed |-> 0, matches_found |-> 0]
    ELSE [error |-> "", text |-> modified_content,
          lines_changed |-> count_changed_lines(original_content, modified_content),
          matches_found |-> match_count]

\* PatternEditor.edit on a PATTERN request.
PatternEdit(r) ==
    LET out == _edit_pattern(r, text) IN
    /\ Constructed(r)
    /\ r.operation_type = "pattern"
    /\ text' = out.text
    /\ strategy_result' = StrategyResult("edit", r, out.error = "", out.error,
                                         out.lines_changed, out.matches_found)
    /\ UNCHANGED <<HAS_IN_PLACE, ast_vars, service_vars>>

\* A deployment in which only the strategies and the constructor are called.
InitStrategies ==
    LET
        Texts ==
            LET
                \* A file as the sequence of its characters: "x" and "y" are ordinary
                \* characters, "LF", "CR" and "FF" are line feed, carriage return and form
                \* feed.  The platform is POSIX: writing in text mode leaves "LF" as it is.
                FileChars == {"x", "LF", "CR", "FF"}
            IN
                     UNION {[1..n -> FileChars] : n \in 0..MaxLen}
    IN
        /\ InitService("strategies", BackupConfigs, {FALSE})
        /\ text \in Texts
        /\ strategy_result = NoStrategyResult
        /\ HAS_IN_PLACE \in BOOLEAN
        /\ source = NoSource
        /\ _ast_editors = DefaultAstEditors
        /\ editor = NoEditor
        /\ _parser = NoParser
        /\ tree_sitter = "missing"

NextStrategies ==
    \/ \E r \in TextRequests : Construct(r)
    \/ LineEdit(strategy_result.request)
    \/ RangeEdit(strategy_result.request)
    \/ AppendEdit(strategy_result.request)
    \/ PatternEdit(strategy_result.request)

SpecStrategies == InitStrategies /\ [][NextStrategies]_vars

\* The line terminator of a line of FileLines.
Terminator(line) == IF line[Len(line)] = "LF" THEN <<"LF">> ELSE <<>>

\* The step is a strategy run on a request of the given type.
StrategyStep(type) ==
    /\ strategy_result'.call = "edit"
    /\ strategy_result'.request.operation_type = type
    /\ strategy_result.request = strategy_result'.request

\* C17: after a successful edit of line n (1 <= n <= number of lines) to the
\* text C, the file has as many lines as before, line n is C with the line
\* ending it had, and every other line is byte for byte as before.
C17_LineEditExactness ==
    [][LET r == strategy_result'.request
           before == FileLines(text)
           after == FileLines(text')
       IN
       ( /\ StrategyStep("line")
         /\ r.target.shape = "int" /\ r.content.shape = "str"
         /\ r.target.n \in 1..Len(before)
         /\ strategy_result'.success )
       => /\ Len(after) = Len(before)
          /\ \A i \in 1..Len(before) :
                after[i] = IF i = r.target.n
                           THEN r.content.value \o Terminator(before[i])
                           ELSE before[i]]_vars

\* C18: a batch line edit (target = the pair of a list of pairwise distinct
\* line numbers and the list of their contents) succeeds, gives exactly the
\* targeted lines that exist their paired content, leaves the other lines as
\* they were and reports as lines_changed the number of targets that exist.
C18_BatchCorrectness ==
    [][LET r == strategy_result'.request
           ns == r.target.line_numbers
           cs == r.target.new_contents
           before == FileLines(text)
           after == FileLines(text')
       IN
       (StrategyStep("line") /\ r.target.shape = "tuple")
       => /\ strategy_result'.success
          /\ strategy_result'.lines_changed =
                Cardinality({i \in DOMAIN ns : ns[i] <= Len(before)})
          /\ Len(after) = Len(before)
          /\ \A j \in 1..Len(before) :
                after[j] = IF \E i \in DOMAIN ns : ns[i] = j
                           THEN cs[CHOOSE i \in DOMAIN ns : ns[i] = j]
                                    \o Terminator(before[j])
                           ELSE before[j]]_vars

\* The target of the request has the shape its operation_type asks for, a
\* batch pair being two non-empty lists of one length.
ShapeMatches(r) ==
    CASE r.operation_type = "line" ->
            \/ r.target.shape = "int"
            \/ /\ r.target.shape = "tuple"
               /\ r.target.line_numbers # <<>>
               /\ Len(r.target.line_numbers) = Len(r.target.new_contents)
      [] r.operation_type = "range" -> r.target.shape = "range"
      [] r.operation_type = "pattern" -> r.target.shape = "str"
      [] r.operation_type = "append" -> r.target.shape = "None"

\* C19: constructing a request whose target does not have the shape of its
\* operation_type raises at once, and no constructed request is refused by
\* its strategy for the shape of its target or content.
C19_ConstructionTimeValidation ==
    /\ (strategy_result.call = "construct" /\ ~ShapeMatches(strategy_result.request))
          => strategy_result.error = "ValueError"
    /\ (strategy_result.call = "edit" /\ strategy_result.request.operation_type = "line")
          => strategy_result.error \notin {"ValidationException", "TypeError"}
    /\ (strategy_result.call = "edit" /\ strategy_result.request.operation_type = "pattern")
          => strategy_result.error # "TypeError"

\* C20: a pattern edit whose pattern compiles and matches nowhere in the text
\* of the file returns success with lines_changed = 0 and matches_found = 0
\* and leaves the file as it is, so that repeating it gives the same again.
C20_PatternIdempotence ==
    [][LET r == strategy_result'.request IN
       ( /\ StrategyStep("pattern")
         /\ compiles(r.target.pattern)
         /\ finditer_count(r.target.pattern, read_text(text)) = 0 )
       => /\ strategy_result'.success
          /\ strategy_result'.lines_changed = 0
          /\ strategy_result'.matches_found = 0
          /\ text' = text
          /\ _edit_pattern(r, text') = _edit_pattern(r, text)]_vars

\* C20 witness: a pattern edit found no match in a file whose text, written
\* back, would not be the same bytes.
C20_Witness ==
    /\ strategy_result.call = "edit"
    /\ strategy_result.request.operation_type = "pattern"
    /\ strategy_result.success /\ strategy_result.matches_found = 0
    /\ read_text(text) # text

\* ------------------------------------------------- the syntax-tree editors
\* The most statements a module body has, and the names its definitions,
\* string literals and calls use.
MaxStatements == 2

Names == {"f", "g"}

\* A node of a Python syntax tree: its class, the name it defines or
\* mentions, and the statements of its body.  "Str" is an expression
\* statement holding the string literal 'name', "Call" one calling name().
Node(kind, name, body) == [kind |-> kind, name |-> name, body |-> body]

Pass == Node("Pass", "", <<>>)

\* The files an editor is given: Python files that parse, in either layout,
\* a Python file that does not parse, and files of the other languages,
\* whose trees the editors never change (javascript_editor.py 109-166,
\* rust_editor.py 88-166) and which are kept as their text alone.
Sources ==
    LET
        ModuleBodies ==
            LET
                \* A module body: functions that only pass, then one statement of any kind.
                PlainFunctions == {Node("FunctionDef", n, <<Pass>>) : n \in Names}
                TopLevelStatements ==
                    LET
                        \* The statements inside a definition, and those of a module.
                        NestedStatements ==
                            {Pass}
                            \cup {Node("Str", n, <<>>) : n \in Names}
                            \cup {Node("FunctionDef", n, <<Pass>>) : n \in Names}
                    IN
                        {Node(k, n, <<>>) : k \in {"Str", "Call"}, n \in Names}
                        \cup {Node(k[1], k[2], <<b>>) :
                                k \in {"FunctionDef", "AsyncFunctionDef", "ClassDef"} \X Names,
                                b \in NestedStatements}
            IN
                UNION {{first \o <<last>> : first \in [1..(n - 1) -> PlainFunctions],
                                            last \in TopLevelStatements} :
                       n \in 1..MaxStatements}
    IN
        {Source(".py", b, l, <<>>) : b \in ModuleBodies, l \in {"canonical", "other"}}
        \cup {Source(".py", <<>>, "syntax_error", <<>>)}
        \cup {Source(x, <<>>, l, <<>>) : x \in {".js", ".ts", ".rs"},
                                         l \in {"other", "syntax_error"}}

\* The extensions each editor class accepts (ast_editor.py 22,
\* javascript_editor.py 16 and 63, rust_editor.py 16).
supported_extensions(editor_class) ==
    CASE editor_class = "ASTEditor" -> {".py"}
      [] editor_class = "JavaScriptEditor" -> {".js", ".jsx", ".mjs"}
      [] editor_class = "TypeScriptEditor" -> {".ts", ".tsx"}
      [] editor_class = "RustEditor" -> {".rs"}

\* The keys of transformation_handlers (ast_editor.py 246-253,
\* javascript_editor.py 89-97, rust_editor.py 65-76).
transformation_handlers(editor_class) ==
    CASE editor_class = "ASTEditor" ->
            {"rename_function", "add_import", "remove_import",
             "modify_function_body", "add_decorator", "modify_class"}
      [] editor_class \in {"JavaScriptEditor", "TypeScriptEditor"} ->
            {"rename_function", "add_import", "remove_import", "add_export",
             "modify_function", "add_method", "rename_variable"}
      [] editor_class = "RustEditor" ->
            {"rename_function", "add_use", "remove_use", "add_mod",
             "modify_function", "add_impl_method", "rename_variable",
             "add_derive", "modify_struct", "add_trait_impl"}

AstRequests ==
    LET
        \* An AST request.  In the "json" form the target is the text
        \* {"type": type, "parameters": {"old_name": .., "new_name": ..}} and the
        \* content is a string ("str") or None; in the "simple" form the target is
        \* the type and the content is the text of the parameters.
        AstRequest(form, type, old_name, new_name, content, validate_syntax, create_backup) ==
            [operation_type |-> "ast", form |-> form, type |-> type,
             old_name |-> old_name, new_name |-> new_name, content |-> content,
             validate_syntax |-> validate_syntax, create_backup |-> create_backup]
        \* The transformation kinds the requests ask for: one every editor has, one
        \* only the tree-sitter editors have, one no editor has.
        TransformationTypes == {"rename_function", "rename_variable", "extract_method"}
    IN
        {AstRequest(fc[1], t, "f", "g", fc[2], o, o) :
            fc \in {<<"json", "str">>, <<"json", "None">>, <<"simple", "str">>},
            t \in TransformationTypes, o \in BOOLEAN}

\* BaseASTEditor._parse_transformation_config (ast_editor.py 170-193,
\* base_ast_editor.py 169-189): the parameters are a dict when the target is
\* JSON and the content itself otherwise.
_parse_transformation_config(r) ==
    [type |-> r.type,
     parameters |-> IF r.form = "json" THEN "dict" ELSE r.content,
     old_name |-> r.old_name, new_name |-> r.new_name]

\* ASTTransformer._rename_function (ast_editor.py 265-275) on one node whose
\* parameters are a dict.
_rename_function(node, transformation_config) ==
    IF node.kind = "FunctionDef" /\ node.name = transformation_config.old_name
    THEN Node(node.kind, transformation_config.new_name, node.body)
    ELSE node

\* ASTTransformer.visit (ast_editor.py 255-263): the handler of a registered
\* type is applied to the node, and then NodeTransformer visits each child
\* the same way.  rename_function is the registered type requests ask for.
RECURSIVE visit(_, _)
visit_all(body, transformation_config) ==
    [i \in 1..Len(body) |-> visit(body[i], transformation_config)]

visit(node, transformation_config) ==
    LET handled == IF transformation_config.type = "rename_function"
                   THEN _rename_function(node, transformation_config) ELSE node
    IN  Node(handled.kind, handled.name, visit_all(handled.body, transformation_config))

\* The nodes of class FunctionDef named name in a body, at any depth.
RECURSIVE FunctionDefs(_, _)
FunctionDefsIn(body, names) ==
    UNION {{<<i>> \o path : path \in FunctionDefs(body[i], names)} : i \in 1..Len(body)}

FunctionDefs(node, names) ==
    (IF node.kind = "FunctionDef" /\ node.name \in names THEN {<<>>} ELSE {})
    \cup FunctionDefsIn(node.body, names)

\* The result of an AST edit: EditResult with metadata.transformations_applied
\* (ast_editor.py 157-168), or error_result (101-105).
AstResult(editor_class, r, ok, err, applied) ==
    [call |-> "edit_ast", editor_class |-> editor_class, request |-> r,
     success |-> ok, error |-> err, transformations_applied |-> applied]

\* What an edit leaves: the file, the parsers and the result.
AstOutcome(src, parsers, result) ==
    [source |-> src, _parser |-> parsers, result |-> result]

\* The .bak copy shutil.copy2 makes (ast_editor.py 142-145).
backup_of(r, src) ==
    IF r.create_backup THEN <<src.body, src.layout>> ELSE src.bak

\* ASTEditor.edit (ast_editor.py 82-105) with validate_request (49-80) and
\* _edit_ast (107-168).  The handler of rename_function raises
\* AttributeError at the first FunctionDef when the parameters are a str.
ASTEditor_edit(r, src, parsers) ==
    LET transformation_config == _parse_transformation_config(r)
        fail(err) == AstOutcome(src, parsers, AstResult("ASTEditor", r, FALSE, err, 0))
    IN  IF src.suffix \notin supported_extensions("ASTEditor")
        THEN fail("Unsupported file extension")
        ELSE IF src.layout = "syntax_error" THEN fail("Syntax error in file")
        ELSE IF r.content = "None" THEN fail("Content for AST edit must be a string.")
        ELSE IF /\ transformation_config.type = "rename_function"
                /\ transformation_config.parameters # "dict"
                /\ FunctionDefsIn(src.body, Names) # {}
        THEN fail("'str' object has no attribute 'get'")
        ELSE AstOutcome(
                Source(src.suffix, visit_all(src.body, transformation_config), "canonical",
                       backup_of(r, src)),
                parsers,
                AstResult("ASTEditor", r, TRUE, "",
                          IF transformation_config.type = "rename_function"
                          THEN Cardinality(FunctionDefsIn(
                                   src.body, {transformation_config.old_name}))
                          ELSE 0))

\* BaseASTEditor.edit (base_ast_editor.py 87-110) for a tree-sitter editor:
\* validate_request (53-85) with TreeSitterEditor.validate_syntax (268-274),
\* then _edit_ast (112-167) with parse_file (255-266), transform
\* (javascript_editor.py 99-107, rust_editor.py 78-86) and ast_to_source,
\* which gives back the text that was parsed.
TreeSitterEditor_edit(editor_class, r, src, parsers) ==
    LET
        \* The handlers of the tree-sitter transformers that read
        \* config['parameters'] with .get and so raise when it is a str: all but
        \* JavaScriptTransformer._rename_function (javascript_editor.py 109-166,
        \* rust_editor.py 88-166).
        reads_parameters ==
            ~(/\ editor_class \in {"JavaScriptEditor", "TypeScriptEditor"}
              /\ r.type = "rename_function")
    IN
        LET transformation_config == _parse_transformation_config(r)
            parsed == [parsers EXCEPT ![editor_class] = TRUE]
            fail(p, err) == AstOutcome(src, p, AstResult(editor_class, r, FALSE, err, 0))
        IN  IF src.suffix \notin supported_extensions(editor_class)
            THEN fail(parsers, "Unsupported file extension")
            ELSE IF r.validate_syntax
                    /\ (~parsers[editor_class] \/ src.layout = "syntax_error")
            THEN fail(parsers, "File contains syntax errors")
            ELSE IF ~parsers[editor_class] /\ tree_sitter = "missing"
            THEN fail(parsers, "Cannot parse file: tree-sitter not installed")
            ELSE IF transformation_config.type \notin transformation_handlers(editor_class)
            THEN fail(parsed, "AST transformation failed: Unknown transformation type")
            ELSE IF /\ reads_parameters
                    /\ transformation_config.parameters # "dict"
            THEN fail(parsed, "AST transformation failed: 'str' object has no attribute 'get'")
            ELSE AstOutcome(Source(src.suffix, src.body, src.layout, backup_of(r, src)),
                            parsed, AstResult(editor_class, r, TRUE, "", 0))

\* editor_class().edit(r) on the file.
AstEdit(editor_class, r) ==
    LET out == IF editor_class = "ASTEditor"
               THEN ASTEditor_edit(r, source, _parser)
               ELSE TreeSitterEditor_edit(editor_class, r, source, _parser)
    IN  /\ source' = out.source
        /\ _parser' = out._parser
        /\ strategy_result' = out.result
        /\ UNCHANGED <<_ast_editors, editor, tree_sitter, text, HAS_IN_PLACE,
                       service_vars>>

\* A process that only runs the syntax-tree editors on one file.
InitAst ==
    /\ InitService("ast", Configs, {FALSE})
    /\ text = <<>>
    /\ strategy_result = NoStrategyResult
    /\ HAS_IN_PLACE = FALSE
    /\ source \in Sources
    /\ _ast_editors = DefaultAstEditors
    /\ editor = NoEditor
    /\ _parser = NoParser
    /\ tree_sitter \in {"installed", "missing"}

\* The editor is the one the service has for AST requests (service.py 55)
\* or the one the factory has for the extension of the file.
NextAst ==
    \/ \E r \in AstRequests : AstEdit("ASTEditor", r)
    \/ \E editor_class \in TreeSitterEditors \cap {DefaultAstEditors[source.suffix]} :
          \E r \in AstRequests : AstEdit(editor_class, r)

SpecAst == InitAst /\ [][NextAst]_vars

\* ------------------------------------------------------ the editor factory

\* Path(file_path).suffix.lower() (editor_factory.py 48 and 75).
suffix_lower(p) ==
    CASE p \in {"a.py", "A.PY"} -> ".py"
      [] p = "b.js" -> ".js"
      [] p = "c.ts" -> ".ts"
      [] p = "d.rs" -> ".rs"
      [] p = "e.txt" -> ".txt"
      [] OTHER -> ""

\* EditorFactory.get_editor (editor_factory.py 60-95).
get_editor(p, preferred_type) ==
    LET
        \* EditorFactory.get_ast_editor (editor_factory.py 46-54): the class of the
        \* editor returned, "None" when the extension has none.
        get_ast_editor ==
            IF _ast_editors[suffix_lower(p)] # "" THEN _ast_editors[suffix_lower(p)]
            ELSE "None"
    IN
        IF preferred_type \in {"ast", "None"} /\ get_ast_editor # "None"
        THEN get_ast_editor
        ELSE IF preferred_type = "line" THEN "LineEditor"
        ELSE IF preferred_type = "pattern" THEN "PatternEditor"
        ELSE IF preferred_type = "None"
             THEN (IF get_ast_editor # "None" THEN get_ast_editor ELSE "LineEditor")
        ELSE "ValidationException"

\* get_editor(p, preferred_type) is called.
GetEditor(p, preferred_type) ==
    /\ editor' = EditorChoice(p, preferred_type, get_editor(p, preferred_type))
    /\ UNCHANGED <<_ast_editors, source, _parser, tree_sitter, text,
                   strategy_result, HAS_IN_PLACE, service_vars>>

\* register_ast_editor(editor_class, {ext}) (editor_factory.py 37-40), also
\* reached through register_custom_editor (lines 248-250).
RegisterAstEditor(editor_class, ext) ==
    /\ _ast_editors' = [_ast_editors EXCEPT ![ext] = editor_class]
    /\ UNCHANGED <<editor, source, _parser, tree_sitter, text,
                   strategy_result, HAS_IN_PLACE, service_vars>>

\* A process that only uses the factory.
InitFactory ==
    /\ InitService("factory", BackupConfigs, {FALSE})
    /\ text = <<>>
    /\ strategy_result = NoStrategyResult
    /\ HAS_IN_PLACE = FALSE
    /\ source = NoSource
    /\ _ast_editors = DefaultAstEditors
    /\ editor = NoEditor
    /\ _parser = NoParser
    /\ tree_sitter = "missing"

NextFactory ==
    LET
        \* preferred_type: None (written "None"), the three documented values and a
        \* value that is none of them.
        PreferredTypes == {"None", "ast", "line", "pattern", "other"}
        \* The file names get_editor is asked about.
        FactoryPaths == {"a.py", "A.PY", "b.js", "c.ts", "d.rs", "e.txt", "Makefile"}
    IN
        \/ \E p \in FactoryPaths : \E preferred_type \in PreferredTypes :
              GetEditor(p, preferred_type)
        \/ \E ext \in {".txt", ".py"} : RegisterAstEditor("CustomEditor", ext)

SpecFactory == InitFactory /\ [][NextFactory]_vars

\* ------------------------------------------------------------------ claims
\* C29: when the pattern has k >= 1 matches in the content of the file taken
\* as a whole, a pattern edit with a str replacement succeeds, reports
\* matches_found = k and leaves the file with every one of the k matches
\* replaced, on the in_place path as on the standard path.
C29_PatternSubstitution ==
    [][LET r == strategy_result'.request
           content == read_text(text)
           k == finditer_count(r.target.pattern, content)
       IN
       ( /\ StrategyStep("pattern")
         /\ compiles(r.target.pattern)
         /\ r.content.shape = "str"
         /\ k >= 1 )
       => /\ strategy_result'.success
          /\ strategy_result'.matches_found = k
          /\ text' = sub(r.target.pattern, r.content.value, content)]_vars

\* C22: after a successful edit_range(file, start, end, content) the lines
\* of the file with start <= i < end are replaced, the k-th of them by the
\* k-th line of content or by nothing when content has no k-th line, and
\* every other line is byte for byte as before.
C22_RangeEdit ==
    [][LET r == strategy_result'.request
           start_line == r.target.start
           end_line == r.target.stop - 1
           before == FileLines(text)
           content_lines == split(r.content.value)
           expected(i) ==
               IF start_line <= i /\ i < end_line
               THEN IF i - start_line < Len(content_lines)
                    THEN content_lines[i - start_line + 1] \o <<"LF">>
                    ELSE <<>>
               ELSE before[i]
       IN
       ( /\ StrategyStep("range")
         /\ r.content.shape = "str"
         /\ strategy_result'.success )
       => text' = concat([i \in DOMAIN before |-> expected(i)])]_vars

\* C21: an edit_file call with an append request (target None, content not
\* empty) on a file that passes validation returns success.
C21_AppendDispatched ==
    \A o \in Ops :
        ( /\ pc[o] = "done"
          /\ req[o].operation_type = "append"
          /\ _validate_request(req[o]) = "" )
        => results[o].success /\ results[o].error = ""

C27_GlobalConcurrencyBound ==
    /\ Cardinality({o \in Ops : HoldsSlot(o)}) <= ConfiguredSlots(workload)
    /\ operation_semaphore =
          ConfiguredSlots(workload) - Cardinality({o \in Ops : HoldsSlot(o)})

\* C27 witness: every slot is held, by calls on two files, and a further
\* call is waiting for a slot.
C27_Witness ==
    /\ Cardinality({o \in Ops : HoldsSlot(o)}) = ConfiguredSlots(workload)
    /\ \E o1, o2, o3 \in Ops :
        /\ HoldsSlot(o1) /\ HoldsSlot(o2) /\ pc[o3] = "sem"
        /\ req[o1].file_path # req[o2].file_path

\* C28: two calls whose file_path strings differ but lead to one file are
\* never both inside _execute_edit.
C28_CanonicalPathSerialization ==
    \A o1, o2 \in Ops :
        ( /\ req[o1].file_path # req[o2].file_path
          /\ FileOf(req[o1].file_path) = FileOf(req[o2].file_path)
          /\ InExecuteEdit(o1) )
        => ~InExecuteEdit(o2)

\* C30: a validated call that is kept waiting for a slot, on a file that no
\* call holding a slot names, waits only when max_concurrent_operations calls
\* are inside _execute_edit.
C30_WaitersTakeNoSlot ==
    \A o \in Ops :
        ( /\ running = 0
          /\ pc[o] = "sem"
          /\ semaphore_locked
          /\ \A o2 \in Ops \ {o} :
                HoldsSlot(o2) => req[o2].file_path # req[o].file_path )
        => Cardinality({o2 \in Ops : InExecuteEdit(o2)}) >= ConfiguredSlots(workload)

\* C25: get_editor with preferred_type 'ast' or None returns the AST editor
\* registered for the extension of the file when there is one and the line
\* editor when there is none, with 'pattern' it returns the pattern editor,
\* and in none of these cases does it raise.
C25_GetEditor ==
    [][editor' # editor =>
        LET registered == _ast_editors[suffix_lower(editor'.file_path)] IN
        /\ editor'.preferred_type \in {"ast", "None"} =>
              editor'.result = IF registered # "" THEN registered ELSE "LineEditor"
        /\ editor'.preferred_type = "pattern" => editor'.result = "PatternEditor"]_vars

\* An AST edit has just returned.
AstStep ==
    /\ strategy_result'.call = "edit_ast"
    /\ strategy_result' # strategy_result \/ source' # source \/ _parser' # _parser

\* C23: an AST edit whose transformation type is not a key of the editor's
\* transformation_handlers returns a failure and leaves the file as it was,
\* for the Python editor and for the tree-sitter editors alike.
C23_UnknownKindFails ==
    [][(/\ AstStep
        /\ strategy_result'.request.type
              \notin transformation_handlers(strategy_result'.editor_class))
       => /\ ~strategy_result'.success
          /\ source'.body = source.body
          /\ source'.layout = source.layout]_vars

\* C24: a successful rename_function{old_name, new_name} on a Python file
\* gives the top-level function named old_name the new name and changes
\* nothing else: the statements inside every definition or class are as they
\* were, and no statement other than a top-level function named old_name has
\* another name than before.
C24_RenameTopLevelOnly ==
    [][(/\ AstStep
        /\ strategy_result'.editor_class = "ASTEditor"
        /\ strategy_result'.request.type = "rename_function"
        /\ strategy_result'.success)
       => LET r == strategy_result'.request IN
          /\ Len(source'.body) = Len(source.body)
          /\ \A i \in 1..Len(source.body) :
                LET old == source.body[i]
                    new == source'.body[i]
                IN  /\ new.kind = old.kind
                    /\ new.body = old.body
                    /\ (old.kind = "FunctionDef" /\ old.name = r.old_name)
                          => new.name = r.new_name
                    /\ new.name # old.name
                          => /\ old.kind \in {"FunctionDef", "AsyncFunctionDef"}
                             /\ old.name = r.old_name]_vars

\* C36: the backup_path of a returned EditResult is set only on a successful
\* result, and on a successful result it is set exactly when a backup was
\* taken for the operation, and then it is the backup_path of the backup_info
\* recorded in the operation's metadata.
C36_BackupPathMirroring ==
    \A o \in Ops :
        pc[o] = "done" =>
            /\ results[o].backup_path # 0 => results[o].success
            /\ results[o].success =>
                  /\ results[o].backup_path # 0 <=> backup_info[o] # NoBackupInfo
                  /\ backup_info[o] # NoBackupInfo =>
                        results[o].backup_path = metadata[o].backup_info.backup_path

\* C33: the failure result of a call refused for its extension, for the size
\* of the file or for a path outside allowed_base_paths carries the
\* validation error raised for that rule, the failure result for a missing
\* file carries the file-not-found error, and the failure result of a call
\* that found the file locked carries the FileLocked error.
C33_ErrorKindsPreserved ==
    \A o \in Ops :
        (pc[o] = "done" /\ ~results[o].success) =>
            LET p == req[o].file_path IN
            /\ p \in {"a.exe", "big.py", "/etc/x.py"} =>
                  results[o].error = "ValidationException"
            /\ p = "missing.py" => results[o].error = "FileNotFoundError"
            /\ results[o].error = "FileLockedException" =>
                  /\ _validate_request(req[o]) = ""
                  /\ UsesPortalocker(req[o])

\* C40: the first AST edit on a newly made JavaScript, TypeScript or Rust
\* editor, with validate_syntax set, on a file of the editor's extension that
\* has no syntax error, is not refused for syntax errors.
C40_FirstEditNotRejected ==
    [][(/\ AstStep
        /\ strategy_result'.editor_class \in TreeSitterEditors
        /\ ~_parser[strategy_result'.editor_class]
        /\ strategy_result'.request.validate_syntax
        /\ source.suffix \in supported_extensions(strategy_result'.editor_class)
        /\ source.layout # "syntax_error")
       => strategy_result'.error # "File contains syntax errors"]_vars

C37_ChangeCountsFromSnapshots ==
    [][(/\ \E type \in {"line", "range", "append"} : StrategyStep(type)
        /\ strategy_result'.success
        /\ text' = text)
       => strategy_result'.lines_changed = 0]_vars

\* C32: a pattern edit whose regular expression does not compile creates no
\* backup file and leaves the file as it was, even when options.create_backup
\* and config.backup_enabled are both true.
C32_ValidationErrorNoBackup ==
    \A o \in Ops :
        ( /\ pc[o] = "done"
          /\ req[o].operation_type = "pattern"
          /\ ~compiles(req[o].target)
          /\ \A o2 \in Ops \ {o} : pc[o2] = "idle" )
        => /\ ~backups[generate_operation_id(o)].exists
           /\ files[FileOf(req[o].file_path)] = File(OriginalContent, 0)

\* C38: a rollback never writes a file while an edit_file call on that file
\* is inside _execute_edit, between its backup step and its return.
C38_RollbackSerializedWithEdits ==
    [][rollback_result'.calls # rollback_result.calls =>
          \A o \in Ops :
              InExecuteEdit(o) =>
                  files'[FileOf(req[o].file_path)] = files[FileOf(req[o].file_path)]]_vars

\* C34: a backup file disappears only when it is older than
\* backup_retention_days, and a rollback of an operation whose backup file is
\* gone returns a failure and leaves the target as it was.
C34_BackupsOutliveTheEdit ==
    [][/\ \A o \in Ops :
            (backups[generate_operation_id(o)].exists
                /\ ~backups'[generate_operation_id(o)].exists)
            => now - metadata[o].started_at > backup_retention_days * 24 * 3600
       /\ \A o \in Ops :
            ( /\ rollback_result'.calls # rollback_result.calls
              /\ rollback_result'.result.operation_id = generate_operation_id(o)
              /\ backup_info[o] # NoBackupInfo
              /\ ~backups[generate_operation_id(o)].exists )
            => ~rollback_result'.result.success /\ files' = files]_vars

\* C35: get_operation_status, list_active_operations, search_pattern,
\* validate_pattern and analyze_ast leave the files, the backup directory,
\* active_operations, operation_history and the locks as they are, and
\* get_operation_status reports 'active' exactly for an id in
\* active_operations, 'completed' for an id in operation_history and nothing
\* for an id that is in neither.
C35_ReadOnlyQueries ==
    [][query' # query =>
          LET id == query'.operation_id
              in_history == \E i \in DOMAIN operation_history :
                                metadata[operation_history[i]].operation_id = id
          IN
          /\ files' = files
          /\ backups' = backups
          /\ active_operations' = active_operations
          /\ operation_history' = operation_history
          /\ file_locks' = file_locks
          /\ lock_files' = lock_files
          /\ flocked' = flocked
          /\ query'.call = "get_operation_status" =>
                /\ query'.status = "active" <=> id \in active_operations
                /\ in_history => query'.status = "completed"
                /\ (id \notin active_operations /\ ~in_history) =>
                      query'.status = "none"]_vars

\* C35 witness: get_operation_status has answered 'completed' for a call that
\* took a backup, while another call was active and held the lock of its file.
C35_Witness ==
    /\ query.call = "get_operation_status"
    /\ query.status = "completed"
    /\ \E o \in Ops : /\ metadata[o].operation_id = query.operation_id
                      /\ backup_info[o] # NoBackupInfo
    /\ \E o \in active_operations : InExecuteEdit(o)

\* C31: every edit_file call that has been made eventually returns; a call
\* that has returned holds neither a lock on its file nor a slot; and when
\* every call made has returned the semaphore is back at
\* max_concurrent_operations, no file lock is held and active_operations is
\* empty.
C31_ProgressAndRelease ==
    /\ \A o \in Ops : (pc[o] # "idle") ~> (pc[o] = "done")
    /\ [](\A o \in Ops :
            pc[o] = "done" =>
                /\ ~HoldsSlot(o)
                /\ held_inode[o] = 0
                /\ \A p \in LockKeys : file_locks[p].owner # o)
    /\ [](AllReturned =>
            /\ operation_semaphore = ConfiguredSlots(workload)
            /\ \A p \in LockKeys : file_locks[p].owner = 0
            /\ flocked = {}
            /\ active_operations = {})

\* C31 witness: every call made has returned, one of them after its strategy
\* timed out and another one after it found the file locked or after its
\* strategy raised.
C31_Witness ==
    /\ AllReturned
    /\ \E o1, o2 \in Ops :
        /\ pc[o1] = "done" /\ outcome[o1].kind = "pending"
        /\ pc[o2] = "done"
        /\ \/ results[o2].error = "FileLockedException"
           \/ outcome[o2].kind = "raise"

====
